---- MODULE Spec2Model ----
(***************************************************************************)
(* Verification model of the ATTOM ETL pipeline (manojsharma2025/etl).     *)
(*                                                                         *)
(* The module holds one group of variables per part of the program:        *)
(*   cleanup  - the upload and cleanup phase of                            *)
(*              AttomETLPipeline.process_dataset (src/src/etl_pipeline.py) *)
(*   dl       - one call of FTPDownloader._download_ftp_file_with_retries  *)
(*              or _download_http_file_with_retries                        *)
(*              (src/src/extractors/ftp_downloader.py)                     *)
(*   run      - AttomETLPipeline.run_all_datasets: the filename skip of    *)
(*              download_dataset and the handling of downloaded archives   *)
(*              in process_dataset                                         *)
(*   filter   - StateFilter.filter_multiple_states and                     *)
(*              StateFilter.filter_file_by_state on one input file         *)
(*              (src/src/transformers/state_filter.py)                     *)
(*   match    - FTPDownloader._filter_files_by_dataset and                 *)
(*              _filename_has_excluded_state on a remote listing           *)
(*              (src/src/extractors/ftp_downloader.py)                     *)
(* Every specification starts the groups it does not exercise in an idle   *)
(* value and leaves them unchanged.                                        *)
(***************************************************************************)
EXTENDS Integers, Sequences, FiniteSets, TLC

VARIABLES
    \* ---- cleanup group: process_dataset, etl_pipeline.py:193-265 ----
    require_ftp,        \* dataset_config.get('filter_ftp_upload', False)
    ftp_action,         \* dataset_config.get('filter_ftp_action', 'copy')
    ftp_folder,         \* TRUE when dataset_config has an 'ftp_upload_folder'
    uploader,           \* TRUE when self.uploader (Spaces) was initialised
    ftp_uploader,       \* TRUE when self.ftp_uploader was initialised
    all_filtered_zips,  \* the archives built for the dataset, in build order
    zipExists,          \* archive -> is the local archive file on disk
    spacesDelivered,    \* archive -> did its own object-store PUT succeed
    ftpDelivered,       \* archive -> was its own FTP upload verified
    uploaded_urls,      \* list returned by SpacesUploader.upload_multiple_files
    spaces_map,         \* dict path -> bool built by process_dataset
    ftp_map,            \* dict path -> bool built by process_dataset
    cleanupPc,          \* position inside process_dataset
    cleanupIdx,         \* index of the cleanup loop over all_filtered_zips
    \* ---- dl group: one resumable download call, ftp_downloader.py:221-423 ----
    dlProto,            \* "ftp" or "http": which helper runs
    cfg_retries,        \* int(ftp_config.get('retries', ...)), ftp_downloader.py:342
    honoursOffset,      \* does the server honour REST / Range
    remote,             \* the remote file's bytes
    tempExists,         \* does temp_path ('<name>.part') exist
    tempData,           \* the bytes of temp_path
    localExists,        \* does local_path (the final name) exist
    localData,          \* the bytes of local_path
    attempt,            \* the loop counter of the helper
    existing_size,      \* the offset the current attempt computed
    body,               \* the bytes the server sends in the current attempt
    received,           \* how many bytes of body were written so far
    dlPc,               \* position inside the helper
    dlResult,           \* the helper's return value ("none" while it runs)
    use_ftps,           \* ftp_config.get('use_ftps', True)
    transport,          \* the attempt's connection: "none" | "ftps" | "plain"
    secureFailed,       \* did the FTPS connect of this _connect call raise
    tempSecure,         \* does the '.part' file hold bytes fetched over FTPS
    dlFaulted,          \* did a connect, a transfer or the rename fail in this call
    slept,              \* the time.sleep delays of this call, in order
    transport_failures, \* attempts of the call that ended in a connect or transfer error
    \* ---- filter group: StateFilter, state_filter.py:52-212 ----
    input_file,         \* the lines of the extracted text file, header first
    states_to_use,      \* the requested partition keys, a list of strings
    multiDone,          \* has filter_multiple_states(input_file, states) run
    multiOut,           \* the files it returned, each a list of lines
    singleIdx,          \* how many keys filter_file_by_state has been run for
    singleOut,          \* key position -> lines of the file it wrote
    \* ---- match group: _filter_files_by_dataset, ftp_downloader.py:117-205 ----
    files,              \* the remote names handed to _filter_files_by_dataset
    dataset_name,       \* dataset_config['name']
    parser_keyword_cfg, \* dataset_config.get('parser_keyword'), '' when absent
    ignore_states,      \* dataset_config.get('ignore_states_for_download', False)
    allow_parser_only,  \* dataset_config.get('allow_parser_only', False)
    exclude_states,     \* dataset_config.get('exclude_states', [])
    self_states,        \* self.states of the downloader
    exstates,           \* dataset_config.get('exstates'), <<>> when absent
    cfg_states,         \* dataset_config.get('states'), <<>> when absent
    statesPicked,       \* has process_dataset chosen the states to filter by
    dataset_states,     \* dataset_states of process_dataset
    matchDone,          \* has _filter_files_by_dataset returned
    filtered,           \* the list it returned
    \* ---- run group: run_all_datasets / download_dataset, ftp_downloader.py:425-661 ----
    datasets,           \* self.datasets: names to fetch and post_process_downloaded
    download_dir,       \* names of the files in the downloads directory
    existing_names,     \* the snapshot download_dataset takes of download_dir
    downloaded_files,   \* the list download_dataset builds
    transfers,          \* final filename -> number of completed transfers
    dsIdx,              \* position in self.datasets
    entryIdx,           \* position in the dataset's names / in downloaded_files
    runPc,              \* "start" | "loop" | "returned" | "post" | "done"
    config_loaded,      \* did AttomETLPipeline(config_file) return
    results,            \* the results list of run_all_datasets, by status
    outcomes,           \* "skipped" | "ok" | "failed" per name of the call in progress
    calls,              \* history of the calls of download_dataset
    \* ---- proc group: the archive loop of process_dataset, etl_pipeline.py:100-276 ----
    members,            \* archive position -> number of files it extracts to
    uploader_set,       \* is self.uploader set
    procIdx,            \* position in downloaded_files
    memberIdx,          \* position in extracted_files
    procPc,             \* "extract" | "member" | "compress" | "check" | "done"
    filtered_dir,       \* the intermediate filtered files, as <<archive, member>>
    zip_files,          \* the filtered archives that exist with non-zero size
    built_zips,         \* all_filtered_zips of the loop
    attempted,          \* archives handed to move_and_extract
    skipped,            \* archives whose processing raised
    handled,            \* extracted files that went through the loop body
    handed,             \* the list handed to upload_multiple_files
    procStatus,         \* "running" | "success" | "failed"
    dl_action,          \* dataset_config.get('post_process_downloaded', 'delete')
    downloads,          \* the downloaded archives still in the downloads directory
    filter_failed,      \* extracted files whose filtering failed
    \* ---- zip group: StateFilter.compress_to_zip, state_filter.py:214-262 ----
    zipInputs,          \* files: for each one, does file_path.exists() hold
    zipIdx,             \* position in files
    zipPc,              \* "open" | "write" | "replace" | "returned" | "raised"
    temp_zip,           \* the file at <output_zip>.part
    output_zip,         \* the file at the final archive path
    builds,             \* calls of compress_to_zip for this archive name so far
    \* ---- ext group: Extractor.move_and_extract, extractor.py:20-71 ----
    zip_present,        \* zip_path.exists()
    namelist,           \* number of members of the archive
    extIdx,             \* position in members
    extPc,              \* "start" | "extract" | "cleanup" | "returned" | "raised"
    extract_folder,     \* does extracted/<archive-stem> exist
    staged,             \* the members extracted into the folder
    extracted_files,    \* the members that are files, as returned
    extFailed,          \* the extraction raised inside the try block
    cleanup_warned,     \* "Failed to clean up extract folder" was logged
    \* ---- upload group: FTPUploader.upload_file, ftp_uploader.py:67-169 ----
    up_retries,         \* self.retries
    remote_folder,      \* the requested remote folder
    upAttempt,          \* attempt
    upPc,               \* position inside upload_file
    cwdir,              \* the server's working directory of the attempt's connection
    did_cwd,            \* did _ensure_remote_dir change into remote_folder
    verified,           \* verified
    stored,             \* the directory the attempt's last completed STOR wrote to
    confirm,            \* how the server confirmed the file: "none" | "size" | "nlst"
    asked,              \* the verification commands the attempt sent: "SIZE", "NLST"
    unconfirmed,        \* attempts whose STOR completed without a confirmation
    on_server,          \* the directories of the server that hold the archive
    up_slept,           \* the time.sleep delays of this call
    upResult,           \* the return value ("none" while it runs)
    open_conns,         \* <<attempt, holder>>: connections opened and not closed; holder "local" | "traceback"
    \* ---- name group: the entry names of compress_to_zip, state_filter.py:234-253 ----
    extracted_name,     \* the name of the extracted file
    name_keys,          \* the state codes in the order they are joined
    inner_name_prefix,  \* inner_name_prefix (<<>> for None)
    filtered_name,      \* the name of the filtered file
    arcname,            \* the entry name written to the archive
    namePc,             \* "filter" | "compress" | "done"
    \* ---- path group: the paths process_dataset builds, etl_pipeline.py:107-163 ----
    path_files,         \* the extracted files of the run, in loop order
    path_prefix,        \* dataset_config.get('filtered_zip_prefix'), <<>> for None
    path_keys,          \* the state codes in the order they are joined
    pathIdx,            \* position in path_files
    filtered_paths,     \* the filtered files written so far, by name
    zip_paths,          \* all_filtered_zips, by name
    zip_holds,          \* <<archive name, position of the extracted file it was built from>>
    replaced,           \* archive names that were moved over an archive of this run
    \* ---- guard group: the names download_dataset lets through, ftp_downloader.py:425-661 ----
    gd_mode,            \* "http" | "ftp" (direct URLs) | "browse" (folder)
    gd_entries,         \* the final filenames of the URLs, or the names in the folder
    filtered_prefix,    \* dataset_config.get('filtered_zip_prefix'), <<>> for None
    existing_lower,     \* existing_names: the names in the downloads directory, lowercased
    gdPc,               \* "list" | "loop" | "returned"
    gdIdx,              \* position in the list the loop goes through
    pattern_answer,     \* "none" | "names" | "empty" | "raised": what nlst(pattern) did
    full_listing,       \* "no" | "ok" | "failed": what _list_files_in_folder did
    gd_downloaded,      \* downloaded_files, by name
    gd_transferred      \* the names a transfer was started for

cleanupVars == <<require_ftp, ftp_action, ftp_folder, uploader, ftp_uploader,
                 all_filtered_zips, zipExists, spacesDelivered, ftpDelivered,
                 uploaded_urls, spaces_map, ftp_map, cleanupPc, cleanupIdx>>

dlVars == <<dlProto, cfg_retries, honoursOffset, remote, tempExists, tempData,
            localExists, localData, attempt, existing_size, body, received,
            dlPc, dlResult, use_ftps, transport, secureFailed, tempSecure, dlFaulted,
            slept,
           transport_failures>>

filterVars == <<input_file, states_to_use, multiDone, multiOut, singleIdx, singleOut>>

matchVars == <<files, dataset_name, parser_keyword_cfg, ignore_states,
               allow_parser_only, exclude_states, self_states, matchDone, filtered,
               exstates, cfg_states, statesPicked, dataset_states>>

runVars == <<datasets, download_dir, existing_names, downloaded_files, transfers,
             dsIdx, entryIdx, runPc, config_loaded, results, outcomes, calls>>

procVars == <<members, uploader_set, procIdx, memberIdx, procPc, filtered_dir,
              zip_files, built_zips, attempted, skipped, handled, handed, procStatus,
              dl_action, downloads, filter_failed>>

zipVars == <<zipInputs, zipIdx, zipPc, temp_zip, output_zip, builds>>

extVars == <<zip_present, namelist, extIdx, extPc, extract_folder, staged,
             extracted_files, extFailed, cleanup_warned>>

uploadVars == <<up_retries, remote_folder, upAttempt, upPc, cwdir, did_cwd, verified,
    stored, confirm, asked, unconfirmed, on_server, up_slept, upResult,
    open_conns>>

nameVars == <<extracted_name, name_keys, inner_name_prefix, filtered_name, arcname,
    namePc>>

pathVars == <<path_files, path_prefix, path_keys, pathIdx, filtered_paths, zip_paths,
    zip_holds, replaced>>

guardVars == <<gd_mode, gd_entries, filtered_prefix, existing_lower, gdPc, gdIdx,
    pattern_answer, full_listing, gd_downloaded, gd_transferred>>

vars == <<cleanupVars, dlVars, filterVars, matchVars, runVars, procVars, zipVars, extVars,
    uploadVars, nameVars, pathVars, guardVars>>

\* What the actions of one group leave alone: the other groups
cleanupOthers == <<dlVars, filterVars, matchVars, runVars, procVars, zipVars, extVars,
    uploadVars, nameVars, pathVars, guardVars>>
dlOthers == <<cleanupVars, filterVars, matchVars, runVars, procVars, zipVars, extVars,
    uploadVars, nameVars, pathVars, guardVars>>
filterOthers == <<cleanupVars, dlVars, matchVars, runVars, procVars, zipVars, extVars,
    uploadVars, nameVars, pathVars, guardVars>>
matchOthers == <<cleanupVars, dlVars, filterVars, runVars, procVars, zipVars, extVars,
    uploadVars, nameVars, pathVars, guardVars>>
runOthers == <<cleanupVars, dlVars, filterVars, matchVars, procVars, zipVars, extVars,
    uploadVars, nameVars, pathVars, guardVars>>
procOthers == <<cleanupVars, dlVars, filterVars, matchVars, runVars, zipVars, extVars,
    uploadVars, nameVars, pathVars, guardVars>>
zipOthers == <<cleanupVars, dlVars, filterVars, matchVars, runVars, procVars, extVars,
    uploadVars, nameVars, pathVars, guardVars>>
extOthers == <<cleanupVars, dlVars, filterVars, matchVars, runVars, procVars, zipVars,
    uploadVars, nameVars, pathVars, guardVars>>
uploadOthers == <<cleanupVars, dlVars, filterVars, matchVars, runVars, procVars, zipVars,
    extVars, nameVars, pathVars, guardVars>>
nameOthers == <<cleanupVars, dlVars, filterVars, matchVars, runVars, procVars, zipVars,
    extVars, uploadVars, pathVars, guardVars>>
pathOthers == <<cleanupVars, dlVars, filterVars, matchVars, runVars, procVars, zipVars,
    extVars, uploadVars, nameVars, guardVars>>
guardOthers == <<cleanupVars, dlVars, filterVars, matchVars, runVars, procVars, zipVars,
    extVars, uploadVars, nameVars, pathVars>>

\* The value of a dict lookup d.get(k, False)
DictGet(d, k) == IF k \in DOMAIN d THEN d[k] ELSE FALSE

\* The empty dict
EmptyDict == [k \in {} |-> FALSE]

(***************************************************************************)
(* Idle values of the groups                                               *)
(***************************************************************************)

DlIdle ==
    /\ dlProto = "ftp"
    /\ cfg_retries = 0
    /\ honoursOffset = TRUE
    /\ remote = <<>>
    /\ tempExists = FALSE
    /\ tempData = <<>>
    /\ localExists = FALSE
    /\ localData = <<>>
    /\ attempt = 0
    /\ existing_size = 0
    /\ body = <<>>
    /\ received = 0
    /\ dlPc = "idle"
    /\ dlResult = "none"
    /\ use_ftps = TRUE
    /\ transport = "none"
    /\ secureFailed = FALSE
    /\ tempSecure = FALSE
    /\ dlFaulted = FALSE
    /\ slept = <<>>
    /\ transport_failures = 0

FilterIdle ==
    /\ input_file = <<>>
    /\ states_to_use = <<>>
    /\ multiDone = FALSE
    /\ multiOut = <<>>
    /\ singleIdx = 0
    /\ singleOut = <<>>

MatchIdle ==
    /\ files = <<>>
    /\ dataset_name = <<>>
    /\ parser_keyword_cfg = <<>>
    /\ ignore_states = FALSE
    /\ allow_parser_only = FALSE
    /\ exclude_states = <<>>
    /\ self_states = <<>>
    /\ matchDone = FALSE
    /\ filtered = <<>>
    /\ exstates = <<>>
    /\ cfg_states = <<>>
    /\ statesPicked = FALSE
    /\ dataset_states = <<>>

RunIdle ==
    /\ datasets = <<>>
    /\ download_dir = {}
    /\ existing_names = {}
    /\ downloaded_files = <<>>
    /\ transfers = EmptyDict
    /\ dsIdx = 0
    /\ entryIdx = 0
    /\ runPc = "done"
    /\ config_loaded = TRUE
    /\ results = <<>>
    /\ outcomes = <<>>
    /\ calls = <<>>

\* No file at a path
Absent == [exists |-> FALSE, closed |-> FALSE, entries |-> <<>>, want |-> <<>>]

ZipIdle ==
    /\ zipInputs = <<>>
    /\ zipIdx = 0
    /\ zipPc = "idle"
    /\ temp_zip = Absent
    /\ output_zip = Absent
    /\ builds = 0

ExtIdle ==
    /\ zip_present = FALSE
    /\ namelist = 0
    /\ extIdx = 0
    /\ extPc = "idle"
    /\ extract_folder = FALSE
    /\ staged = {}
    /\ extracted_files = <<>>
    /\ extFailed = FALSE
    /\ cleanup_warned = FALSE

UploadIdle ==
    /\ up_retries = 0
    /\ remote_folder = "/"
    /\ upAttempt = 0
    /\ upPc = "idle"
    /\ cwdir = "none"
    /\ did_cwd = FALSE
    /\ verified = FALSE
    /\ stored = "none"
    /\ confirm = "none"
    /\ asked = {}
    /\ unconfirmed = 0
    /\ on_server = {}
    /\ up_slept = <<>>
    /\ upResult = "none"
    /\ open_conns = {}

NameIdle ==
    /\ extracted_name = <<>>
    /\ name_keys = <<>>
    /\ inner_name_prefix = <<>>
    /\ filtered_name = <<>>
    /\ arcname = <<>>
    /\ namePc = "idle"

PathIdle ==
    /\ path_files = <<>>
    /\ path_prefix = <<>>
    /\ path_keys = <<>>
    /\ pathIdx = 0
    /\ filtered_paths = <<>>
    /\ zip_paths = <<>>
    /\ zip_holds = {}
    /\ replaced = {}

GuardIdle ==
    /\ gd_mode = "idle"
    /\ gd_entries = <<>>
    /\ filtered_prefix = <<>>
    /\ existing_lower = {}
    /\ gdPc = "idle"
    /\ gdIdx = 0
    /\ pattern_answer = "none"
    /\ full_listing = "no"
    /\ gd_downloaded = <<>>
    /\ gd_transferred = <<>>

ProcIdle ==
    /\ members = <<>>
    /\ uploader_set = FALSE
    /\ procIdx = 0
    /\ memberIdx = 0
    /\ procPc = "idle"
    /\ filtered_dir = {}
    /\ zip_files = {}
    /\ built_zips = <<>>
    /\ attempted = {}
    /\ skipped = {}
    /\ handled = {}
    /\ handed = <<>>
    /\ procStatus = "running"
    /\ dl_action = "delete"
    /\ downloads = {}
    /\ filter_failed = {}

(***************************************************************************)
(* Cleanup group                                                           *)
(***************************************************************************)

\* Largest number of archives built for one dataset
MaxZips == 3

CleanupIdle ==
    /\ require_ftp = FALSE
    /\ ftp_action = "copy"
    /\ ftp_folder = FALSE
    /\ uploader = FALSE
    /\ ftp_uploader = FALSE
    /\ all_filtered_zips = <<>>
    /\ zipExists = EmptyDict
    /\ spacesDelivered = EmptyDict
    /\ ftpDelivered = EmptyDict
    /\ uploaded_urls = <<>>
    /\ spaces_map = EmptyDict
    /\ ftp_map = EmptyDict
    /\ cleanupPc = "idle"
    /\ cleanupIdx = 0

\* State of process_dataset when the extract/filter/archive loop has ended
\* with a non-empty all_filtered_zips (etl_pipeline.py:193-194). Archives are
\* named by their position; every archive appended to the list was moved
\* into place by compress_to_zip, so it exists.
CleanupInit ==
    /\ require_ftp \in BOOLEAN
    /\ ftp_action \in {"copy", "move"}
    /\ ftp_folder \in BOOLEAN
    /\ uploader \in BOOLEAN
    /\ ftp_uploader \in BOOLEAN
    /\ \E n \in 1..MaxZips :
          /\ all_filtered_zips = [i \in 1..n |-> i]
          /\ zipExists = [i \in 1..n |-> TRUE]
          /\ spacesDelivered = [i \in 1..n |-> FALSE]
          /\ ftpDelivered = [i \in 1..n |-> FALSE]
    /\ uploaded_urls = <<>>
    /\ spaces_map = EmptyDict
    /\ ftp_map = EmptyDict
    /\ cleanupPc = "spaces"
    /\ cleanupIdx = 1

\* The subsequence of s whose elements satisfy keep[_]
RECURSIVE SelectKept(_, _)
SelectKept(s, keep) ==
    IF s = <<>> THEN <<>>
    ELSE IF keep[Head(s)] THEN <<Head(s)>> \o SelectKept(Tail(s), keep)
         ELSE SelectKept(Tail(s), keep)

\* SpacesUploader.upload_multiple_files: the URL of every file whose upload
\* did not raise, in order; a failed file leaves no entry.
UploadMultipleFilesSpaces(paths, ok) == SelectKept(paths, ok)

\* for p, url in zip(all_filtered_zips, uploaded_urls): spaces_map[str(p)] = bool(url)
\* (a URL is a non-empty string, so bool(url) is True)
ZipSpacesMap(paths, urls) ==
    LET n == IF Len(paths) < Len(urls) THEN Len(paths) ELSE Len(urls)
    IN  [p \in {paths[i] : i \in 1..n} |-> TRUE]

\* etl_pipeline.py:198-205
UploadToSpaces ==
    /\ cleanupPc = "spaces"
    /\ IF uploader
         THEN \E ok \in [DOMAIN zipExists -> BOOLEAN] :
                 /\ spacesDelivered' = ok
                 /\ uploaded_urls' = UploadMultipleFilesSpaces(all_filtered_zips, ok)
                 /\ spaces_map' = ZipSpacesMap(all_filtered_zips, uploaded_urls')
         ELSE UNCHANGED <<spacesDelivered, uploaded_urls, spaces_map>>
    /\ cleanupPc' = "ftp"
    /\ UNCHANGED <<require_ftp, ftp_action, ftp_folder, uploader, ftp_uploader,
                   all_filtered_zips, zipExists, ftpDelivered, ftp_map, cleanupIdx>>
    /\ UNCHANGED cleanupOthers

\* etl_pipeline.py:211-226 with FTPUploader.upload_multiple_files
\* (ftp_uploader.py:171-176): one result per path, success = verified.
UploadToFtp ==
    /\ cleanupPc = "ftp"
    /\ IF require_ftp /\ ftp_folder /\ ftp_uploader
         THEN \E ok \in [DOMAIN zipExists -> BOOLEAN] :
                 /\ ftpDelivered' = ok
                 /\ ftp_map' = ok
         ELSE UNCHANGED <<ftpDelivered, ftp_map>>
    /\ cleanupPc' = "cleanup"
    /\ UNCHANGED <<require_ftp, ftp_action, ftp_folder, uploader, ftp_uploader,
                   all_filtered_zips, zipExists, spacesDelivered, uploaded_urls,
                   spaces_map, cleanupIdx>>
    /\ UNCHANGED cleanupOthers

ShouldDelete_MoveAnySink(reqFtp, action, space_ok, ftp_ok) ==
    IF action = "move" THEN space_ok \/ ftp_ok
    ELSE IF reqFtp THEN FALSE ELSE space_ok \/ ftp_ok

ShouldDelete_CopyDeletes(reqFtp, action, space_ok, ftp_ok) ==
    IF action = "move" THEN ftp_ok
    ELSE space_ok \/ ftp_ok

\* should_delete, etl_pipeline.py:247-257
ShouldDelete(reqFtp, action, space_ok, ftp_ok) ==
    IF action = "move" THEN ftp_ok
    ELSE IF reqFtp THEN FALSE ELSE space_ok \/ ftp_ok

\* One iteration of the loop etl_pipeline.py:237-265
CleanupStep ==
    /\ cleanupPc = "cleanup"
    /\ cleanupIdx <= Len(all_filtered_zips)
    /\ LET pstr == all_filtered_zips[cleanupIdx]
           space_ok == DictGet(spaces_map, pstr)
           ftp_ok == DictGet(ftp_map, pstr)
       IN  zipExists' =
             IF ShouldDelete(require_ftp, ftp_action, space_ok, ftp_ok) /\ zipExists[pstr]
             THEN [zipExists EXCEPT ![pstr] = FALSE]
             ELSE zipExists
    /\ cleanupIdx' = cleanupIdx + 1
    /\ UNCHANGED <<require_ftp, ftp_action, ftp_folder, uploader, ftp_uploader,
                   all_filtered_zips, spacesDelivered, ftpDelivered, uploaded_urls,
                   spaces_map, ftp_map, cleanupPc>>
    /\ UNCHANGED cleanupOthers

\* The loop is over: process_dataset returns status 'success' (etl_pipeline.py:267-276)
CleanupDone ==
    /\ cleanupPc = "cleanup"
    /\ cleanupIdx > Len(all_filtered_zips)
    /\ cleanupPc' = "done"
    /\ UNCHANGED <<require_ftp, ftp_action, ftp_folder, uploader, ftp_uploader,
                   all_filtered_zips, zipExists, spacesDelivered, ftpDelivered,
                   uploaded_urls, spaces_map, ftp_map, cleanupIdx>>
    /\ UNCHANGED cleanupOthers

CleanupNext == UploadToSpaces \/ UploadToFtp \/ CleanupStep \/ CleanupDone

InitCleanup == CleanupInit /\ DlIdle /\ FilterIdle /\ MatchIdle /\ RunIdle /\ ProcIdle /\
    ZipIdle /\ ExtIdle /\ UploadIdle /\ NameIdle /\ PathIdle /\ GuardIdle

SpecCleanup == InitCleanup /\ [][CleanupNext]_vars

\* The archives of the dataset
Zips == DOMAIN zipExists

\* C1: with filter_ftp_upload false, for copy and for move, when the cleanup
\* loop has ended an archive is deleted iff its own object-store upload
\* succeeded or its own FTP upload was verified.
C1_DeleteIffAnySink ==
    (cleanupPc = "done" /\ ~require_ftp) =>
        \A z \in Zips : (~zipExists[z]) <=> (spacesDelivered[z] \/ ftpDelivered[z])

C3_CopyNeverDeletes ==
    (require_ftp /\ ftp_action = "copy") => \A z \in Zips : zipExists[z]

\* Both sinks delivered the archive and the cleanup loop has ended.
C3_Witness ==
    /\ cleanupPc = "done" /\ require_ftp /\ ftp_action = "copy"
    /\ \E z \in Zips : /\ spacesDelivered[z] /\ DictGet(spaces_map, z)
                       /\ ftpDelivered[z] /\ DictGet(ftp_map, z)
                       /\ zipExists[z]

\* C26: an archive is deleted by the cleanup only if that very archive was
\* delivered to at least one sink.
C26_DeletedOnlyIfItselfDelivered ==
    \A z \in Zips : ~zipExists[z] => (spacesDelivered[z] \/ ftpDelivered[z])

\* The same when no object-store upload of the batch failed
C26_HoldsWithoutSpacesFailure ==
    (uploader => \A z \in Zips : cleanupPc = "spaces" \/ spacesDelivered[z]) =>
        \A z \in Zips : ~zipExists[z] => (spacesDelivered[z] \/ ftpDelivered[z])

(***************************************************************************)
(* Download group: _download_ftp_file_with_retries (ftp_downloader.py:331) *)
(* and _download_http_file_with_retries (ftp_downloader.py:221)            *)
(***************************************************************************)

\* Longest remote file, in bytes
MaxLen == 3

\* Largest value of ftp_config['retries']
MaxCfgRetries == 4

\* retries=3, the default of _download_ftp_file_with_retries
DefaultRetries == 3

\* retries=3 of _download_http_file_with_retries; _download_http_file passes
\* no other value (ftp_downloader.py:219)
HttpRetries == 3

\* use_retries, ftp_downloader.py:343
UseRetries == IF cfg_retries > 0 THEN cfg_retries ELSE DefaultRetries

\* The bound of the while loop of the helper that runs
RetryLimit == IF dlProto = "ftp" THEN UseRetries ELSE HttpRetries

\* The 5 of time.sleep(min(5 * attempt, ...)) (ftp 411, 420; http 272)
BackoffStep == 5

\* The cap of the FTP helper's delay (411, 420)
FtpBackoffCap == 60

\* The cap of the HTTP helper's delay (272)
HttpBackoffCap == 30

\* The smaller of two numbers
Min(a, b) == IF a <= b THEN a ELSE b

\* The cap of the helper that runs
BackoffCap == IF dlProto = "ftp" THEN FtpBackoffCap ELSE HttpBackoffCap

\* time.sleep(min(5 * attempt, cap)) of the except clauses
Backoff == Min(BackoffStep * attempt, BackoffCap)

\* The first n elements of s
Prefix(s, n) == SubSeq(s, 1, n)

\* s from offset n (0-based) to its end
FromOffset(s, n) == SubSeq(s, n + 1, Len(s))

\* A download call starts: the remote file holds bytes 1..L; a .part file left
\* by an earlier interrupted call holds a prefix of the remote file; the final
\* name is free or holds an earlier complete download.
DlInit ==
    /\ dlProto \in {"ftp", "http"}
    /\ cfg_retries \in 0..MaxCfgRetries
    /\ honoursOffset \in BOOLEAN
    /\ \E L \in 0..MaxLen : remote = [i \in 1..L |-> i]
    /\ tempExists \in BOOLEAN
    /\ \E n \in 0..Len(remote) :
          tempData = IF tempExists THEN Prefix(remote, n) ELSE <<>>
    /\ localExists \in BOOLEAN
    /\ localData = IF localExists THEN remote ELSE <<>>
    /\ attempt = 0
    /\ existing_size = 0
    /\ body = <<>>
    /\ received = 0
    /\ dlPc = "loop"
    /\ dlResult = "none"
    /\ use_ftps \in (IF dlProto = "ftp" THEN BOOLEAN ELSE {FALSE})
    /\ transport = "none"
    /\ secureFailed = FALSE
    /\ tempSecure = FALSE
    /\ dlFaulted = FALSE
    /\ slept = <<>>
    /\ transport_failures = 0

\* while attempt < use_retries: attempt += 1   (ftp 348-349, http 235-236)
DlLoopEnter ==
    /\ dlPc = "loop"
    /\ attempt < RetryLimit
    /\ attempt' = attempt + 1
    /\ dlPc' = "connect"
    /\ UNCHANGED <<dlProto, use_ftps, cfg_retries, honoursOffset, remote, tempExists, tempData,
                   localExists, localData, existing_size, body, received, dlResult>>
    /\ transport' = "none"
    /\ secureFailed' = FALSE
    /\ UNCHANGED <<tempSecure, dlFaulted>>
    /\ UNCHANGED slept
    /\ UNCHANGED transport_failures
    /\ UNCHANGED dlOthers

\* The loop ends without a success: return False (ftp 422-423, http 275-277)
DlGiveUp ==
    /\ dlPc = "loop"
    /\ ~(attempt < RetryLimit)
    /\ dlPc' = "done"
    /\ dlResult' = "false"
    /\ UNCHANGED <<dlProto, use_ftps, cfg_retries, honoursOffset, remote, tempExists, tempData,
                   localExists, localData, attempt, existing_size, body, received>>
    /\ UNCHANGED <<transport, secureFailed, tempSecure, dlFaulted>>
    /\ UNCHANGED slept
    /\ UNCHANGED transport_failures
    /\ UNCHANGED dlOthers

\* ftplib.FTP_TLS(...), login and prot_p succeed: _connect returns the
\* secure connection (58-64)
DlConnectSecure ==
    /\ dlPc = "connect"
    /\ dlProto = "ftp"
    /\ use_ftps
    /\ ~secureFailed
    /\ transport' = "ftps"
    /\ dlPc' = "request"
    /\ UNCHANGED <<dlProto, use_ftps, cfg_retries, honoursOffset, remote, tempExists,
                   tempData, localExists, localData, attempt, existing_size, body,
                   received, dlResult, secureFailed, tempSecure, dlFaulted>>
    /\ UNCHANGED slept
    /\ UNCHANGED transport_failures
    /\ UNCHANGED dlOthers

\* The secure connect or login raises: _connect logs a warning and goes on to
\* the plain connection (65-66)
DlSecureFails ==
    /\ dlPc = "connect"
    /\ dlProto = "ftp"
    /\ use_ftps
    /\ ~secureFailed
    /\ secureFailed' = TRUE
    /\ UNCHANGED <<dlProto, use_ftps, cfg_retries, honoursOffset, remote, tempExists,
                   tempData, localExists, localData, attempt, existing_size, body,
                   received, dlPc, dlResult, transport, tempSecure, dlFaulted>>
    /\ UNCHANGED slept
    /\ UNCHANGED transport_failures
    /\ UNCHANGED dlOthers

\* ftplib.FTP(...) and login succeed: _connect returns the plaintext
\* connection, by configuration or as the fallback (68-73)
DlConnectPlain ==
    /\ dlPc = "connect"
    /\ dlProto = "ftp"
    /\ ~use_ftps \/ secureFailed
    /\ transport' = "plain"
    /\ dlPc' = "request"
    /\ UNCHANGED <<dlProto, use_ftps, cfg_retries, honoursOffset, remote, tempExists,
                   tempData, localExists, localData, attempt, existing_size, body,
                   received, dlResult, secureFailed, tempSecure, dlFaulted>>
    /\ UNCHANGED slept
    /\ UNCHANGED transport_failures
    /\ UNCHANGED dlOthers

\* The attempt has its connection: _connect returned (352); the HTTP helper
\* connects in requests.get itself (247)
Connected ==
    \/ dlPc = "request"
    \/ dlPc = "connect" /\ dlProto = "http"

\* The plain connect of self._connect() / requests.get raises: the except
\* clause sleeps and continues (ftp 352, 402-420; http 247-248, 269-273)
DlConnectFail ==
    /\ dlPc = "connect"
    /\ dlProto = "ftp" => (~use_ftps \/ secureFailed)
    /\ dlPc' = "loop"
    /\ UNCHANGED <<dlProto, use_ftps, cfg_retries, honoursOffset, remote, tempExists, tempData,
                   localExists, localData, attempt, existing_size, body, received,
                   dlResult>>
    /\ dlFaulted' = TRUE
    /\ UNCHANGED <<transport, secureFailed, tempSecure>>
    /\ slept' = Append(slept, Backoff)
    /\ transport_failures' = transport_failures + 1
    /\ UNCHANGED dlOthers

\* existing_size of the attempt (ftp 368, http 240-245)
ExistingSize == IF tempExists THEN Len(tempData) ELSE 0

\* What the server sends for a request from offset n
ResponseBody(n) ==
    IF n > 0 /\ honoursOffset THEN FromOffset(remote, n) ELSE remote

\* Does the server refuse the request: REST not supported (FTP), or a Range
\* that starts at or after the end of the file, answered 416 (HTTP)
RequestRefused(n) ==
    IF dlProto = "ftp" THEN n > 0 /\ ~honoursOffset
    ELSE n > 0 /\ honoursOffset /\ n >= Len(remote)

\* The request is built from the partial size, temp_path is opened 'ab' when
\* it holds bytes and 'wb' otherwise, and the server starts to answer
\* (ftp 368-390, http 238-251)
DlRequest ==
    /\ Connected
    /\ ~RequestRefused(ExistingSize)
    /\ existing_size' = ExistingSize
    /\ body' = ResponseBody(ExistingSize)
    /\ received' = 0
    /\ tempExists' = TRUE
    /\ tempData' = IF ExistingSize > 0 THEN tempData ELSE <<>>
    /\ dlPc' = "stream"
    /\ UNCHANGED <<dlProto, use_ftps, cfg_retries, honoursOffset, remote, localExists,
                   localData, attempt, dlResult>>
    /\ tempSecure' = (ExistingSize > 0 /\ tempSecure)
    /\ UNCHANGED <<transport, secureFailed, dlFaulted>>
    /\ UNCHANGED slept
    /\ UNCHANGED transport_failures
    /\ UNCHANGED dlOthers

\* The server refuses the request: retrbinary / raise_for_status raises. The
\* FTP helper has opened temp_path in mode 'ab' by then, which changes nothing.
DlRequestRefused ==
    /\ Connected
    /\ RequestRefused(ExistingSize)
    /\ existing_size' = ExistingSize
    /\ dlPc' = "loop"
    /\ UNCHANGED <<dlProto, use_ftps, cfg_retries, honoursOffset, remote, tempExists, tempData,
                   localExists, localData, attempt, body, received, dlResult>>
    /\ UNCHANGED <<transport, secureFailed, tempSecure, dlFaulted>>
    /\ slept' = Append(slept, Backoff)
    /\ UNCHANGED transport_failures
    /\ UNCHANGED dlOthers

\* callback(data) / f.write(chunk): received bytes go to temp_path
\* (ftp 381-384, http 252-254)
DlChunk ==
    /\ dlPc = "stream"
    /\ received < Len(body)
    /\ tempData' = Append(tempData, body[received + 1])
    /\ received' = received + 1
    /\ UNCHANGED <<dlProto, use_ftps, cfg_retries, honoursOffset, remote, tempExists,
                   localExists, localData, attempt, existing_size, body, dlPc,
                   dlResult>>
    /\ tempSecure' = (tempSecure \/ transport = "ftps")
    /\ UNCHANGED <<transport, secureFailed, dlFaulted>>
    /\ UNCHANGED slept
    /\ UNCHANGED transport_failures
    /\ UNCHANGED dlOthers

DlTransferFail_Promotes ==
    /\ dlPc = "stream"
    /\ dlPc' = "loop"
    /\ localExists' = TRUE
    /\ localData' = tempData
    /\ tempExists' = FALSE
    /\ tempData' = <<>>
    /\ UNCHANGED <<dlProto, use_ftps, cfg_retries, honoursOffset, remote, attempt,
                   existing_size, body, received, dlResult>>
    /\ dlFaulted' = TRUE
    /\ UNCHANGED <<transport, secureFailed, tempSecure>>
    /\ slept' = Append(slept, Backoff)
    /\ transport_failures' = transport_failures + 1
    /\ UNCHANGED dlOthers

\* The transfer raises (timeout, lost connection, error reply): the except
\* clause sleeps and continues; temp_path is left as it is (ftp 402-420,
\* http 269-273)
DlTransferFail ==
    /\ dlPc = "stream"
    /\ dlPc' = "loop"
    /\ UNCHANGED <<dlProto, use_ftps, cfg_retries, honoursOffset, remote, tempExists, tempData,
                   localExists, localData, attempt, existing_size, body, received,
                   dlResult>>
    /\ dlFaulted' = TRUE
    /\ UNCHANGED <<transport, secureFailed, tempSecure>>
    /\ slept' = Append(slept, Backoff)
    /\ transport_failures' = transport_failures + 1
    /\ UNCHANGED dlOthers

\* The transfer ended without error: temp_path.replace(local_path); return True
\* (ftp 392-400, http 257-261)
DlPromote ==
    /\ dlPc = "stream"
    /\ received = Len(body)
    /\ localExists' = TRUE
    /\ localData' = tempData
    /\ tempExists' = FALSE
    /\ tempData' = <<>>
    /\ dlPc' = "done"
    /\ dlResult' = "true"
    /\ UNCHANGED <<dlProto, use_ftps, cfg_retries, honoursOffset, remote, attempt,
                   existing_size, body, received>>
    /\ tempSecure' = FALSE
    /\ UNCHANGED <<transport, secureFailed, dlFaulted>>
    /\ UNCHANGED slept
    /\ UNCHANGED transport_failures
    /\ UNCHANGED dlOthers

\* temp_path.replace raises: the FTP helper's except clause retries (402),
\* the HTTP helper returns False (262-264)
DlRenameFail ==
    /\ dlPc = "stream"
    /\ received = Len(body)
    /\ IF dlProto = "ftp"
         THEN dlPc' = "loop" /\ UNCHANGED dlResult
         ELSE dlPc' = "done" /\ dlResult' = "false"
    /\ UNCHANGED <<dlProto, use_ftps, cfg_retries, honoursOffset, remote, tempExists, tempData,
                   localExists, localData, attempt, existing_size, body, received>>
    /\ dlFaulted' = TRUE
    /\ UNCHANGED <<transport, secureFailed, tempSecure>>
    /\ slept' = IF dlProto = "ftp" THEN Append(slept, Backoff) ELSE slept
    /\ UNCHANGED transport_failures
    /\ UNCHANGED dlOthers

DlNext ==
    \/ DlLoopEnter \/ DlGiveUp \/ DlConnectSecure \/ DlSecureFails \/ DlConnectPlain
    \/ DlConnectFail \/ DlRequest \/ DlRequestRefused
    \/ DlChunk \/ DlTransferFail \/ DlPromote \/ DlRenameFail

InitDownload == DlInit /\ CleanupIdle /\ FilterIdle /\ MatchIdle /\ RunIdle /\ ProcIdle /\
    ZipIdle /\ ExtIdle /\ UploadIdle /\ NameIdle /\ PathIdle /\ GuardIdle

SpecDownload == InitDownload /\ [][DlNext]_vars

\* t is the end of s
IsSuffix(t, s) ==
    Len(t) <= Len(s) /\ SubSeq(s, Len(s) - Len(t) + 1, Len(s)) = t

\* The final name holds no incomplete transfer: its content ends with the
\* whole remote file.
C4_FinalComplete == localExists => IsSuffix(remote, localData)

\* The final name changes only in the step that renames temp_path after the
\* attempt's whole body was received, and received bytes change temp_path only.
C4_OnlyByRename ==
    (localExists' # localExists \/ localData' # localData) =>
        /\ dlPc = "stream" /\ received = Len(body) /\ tempExists
        /\ localExists' /\ localData' = tempData /\ ~tempExists'
        /\ dlResult' = "true"

\* C4: received bytes are written to the '.part' file only; the final name
\* comes into existence only by renaming the '.part' file after an attempt
\* whose transfer ended without error; in no state, also after failed
\* attempts and after the last retry, does the final name hold an incomplete
\* transfer.
C4_PartThenRename == []C4_FinalComplete /\ [][C4_OnlyByRename]_vars

\* A download that failed at least once and then succeeded: the final file is
\* there, complete, and the '.part' file is gone.
C4_Witness ==
    /\ dlPc = "done" /\ dlResult = "true" /\ attempt >= 2
    /\ localExists /\ localData = remote /\ Len(remote) >= 2 /\ ~tempExists

\* The configured number of attempts: ftp 'retries', default 3
ConfiguredRetries == IF cfg_retries > 0 THEN cfg_retries ELSE DefaultRetries

\* A failed attempt neither deletes nor truncates the '.part' file
C5_PartialKept ==
    (tempExists /\ ~(dlResult' = "true")) =>
        (tempExists' /\ Len(tempData') >= Len(tempData))

\* The parts of C5 that hold of both helpers
C5_ResumeParts ==
    /\ [](attempt <= RetryLimit)
    /\ [](dlPc = "stream" => existing_size + received = Len(tempData))
    /\ [][C5_PartialKept]_vars

\* C5: at most the configured number of attempts (ftp 'retries', default 3)
\* is made and then failure is reported; a failed attempt never deletes or
\* truncates the '.part' file; every attempt requests the remote file from
\* the offset equal to the current partial size.
C5_BoundedAttemptsResume ==
    /\ [](attempt <= ConfiguredRetries)
    /\ []((dlPc = "done" /\ dlResult = "false" /\ dlProto = "ftp")
            => attempt = ConfiguredRetries)
    /\ [](dlPc = "stream" => existing_size + received = Len(tempData))
    /\ [][C5_PartialKept]_vars

\* C12: starting from a '.part' file holding the first N bytes, 0 <= N <= L,
\* with a server that honours the offset and no transport failure, the call
\* ends with the final file identical to the remote file.
C12_ResumeIdentical ==
    (dlPc = "done" /\ honoursOffset /\ ~dlFaulted) =>
        (dlResult = "true" /\ localExists /\ localData = remote)

\* The resumed transfer is right whenever it succeeds with a server that
\* honours the offset
C12_SuccessIsIdentical ==
    (dlPc = "done" /\ dlResult = "true" /\ honoursOffset) => localData = remote

\* The plaintext fallback of one connection attempt comes after its secure
\* connect failed, and an attempt connects once
C20_FallbackAtConnect ==
    /\ (transport = "plain" /\ use_ftps) => secureFailed
    /\ secureFailed => (dlProto = "ftp" /\ use_ftps /\ transport # "ftps")

\* C20: the fallback to plaintext happens only while a connection is being
\* established, after its secure connect failed, and a file whose '.part'
\* holds bytes fetched over the secure transport is never continued over
\* plaintext.
C20_NoPlaintextContinuation ==
    /\ C20_FallbackAtConnect
    /\ ~(dlPc = "stream" /\ transport = "plain" /\ tempSecure /\ received > 0)

\* C21: a transfer that completed with a local size different from the size
\* of the remote file is not promoted to the final name: a file promoted by
\* this call has the size of the remote file.
C21_MismatchNotPromoted ==
    (dlPc = "done" /\ dlResult = "true") => Len(localData) = Len(remote)

\* C30: an HTTP download that resumed from a non-empty .part file and was
\* promoted equals the remote content, whether or not the server honours Range.
C30_HttpResumeEqualsRemote ==
    (dlPc = "done" /\ dlResult = "true" /\ dlProto = "http" /\ existing_size > 0) =>
        localData = remote

\* C22: the delay before the retry after the k-th failed attempt doubles with
\* every further failure until it reaches the cap, and never exceeds the cap.
C22_BackoffDoublesToCap ==
    \A k \in 1..Len(slept) :
        k < RetryLimit =>
            /\ slept[k] <= BackoffCap
            /\ k > 1 => slept[k] = Min(2 * slept[k - 1], BackoffCap)

\* The delays of the download helpers stay at or below their cap
C22_NeverAboveCap == \A k \in 1..Len(slept) : slept[k] <= BackoffCap

\* The call is a sequential program that goes on as long as it has a step to
\* take: the helper loops of SpecDownload under weak fairness
SpecDownloadLive == InitDownload /\ [][DlNext]_vars /\ WF_vars(DlNext)

\* The call has returned success, the final file is there and complete and no
\* '.part' file is left
DlSucceeded ==
    /\ dlPc = "done" /\ dlResult = "true"
    /\ localExists /\ localData = remote
    /\ ~tempExists

\* C34: the call terminates after at most the configured number of attempts;
\* when the server honours the resume offset and the transport fails fewer
\* times than the configured retry limit, it ends in success with the final
\* file present and complete and no '.part' file left.
C34_ResumableDownloadLive ==
    /\ <>(dlPc = "done")
    /\ [](attempt <= ConfiguredRetries)
    /\ []((dlPc = "done" /\ honoursOffset /\ transport_failures < ConfiguredRetries)
            => DlSucceeded)

\* Every call terminates within the bound of the loop of its helper
C34_Terminates ==
    /\ <>(dlPc = "done")
    /\ [](attempt <= RetryLimit)

(***************************************************************************)
(* Filter group: StateFilter (state_filter.py)                             *)
(* A line is the list of its characters, its line end included; a file is  *)
(* the list of its lines.                                                  *)
(***************************************************************************)

TAB == "\t"
NL == "\n"
SP == " "

\* self.delimiter, state_filter.py:20 (the default)
delimiter == TAB

\* self.state_code_column; the one-letter name S stands for 'SitusStateCode'
state_code_column == <<"S">>

\* Most records of an input file
MaxRecords == 2

\* Most characters of a record, its line end not counted
MaxLineLen == 3

\* Most requested keys
MaxKeys == 2

\* str.strip() removes these
IsSpace(c) == c \in {SP, TAB, NL}

RECURSIVE LStrip(_)
LStrip(s) ==
    IF s = <<>> THEN s
    ELSE IF IsSpace(Head(s)) THEN LStrip(Tail(s)) ELSE s

RECURSIVE RStrip(_)
RStrip(s) ==
    IF s = <<>> THEN s
    ELSE IF IsSpace(s[Len(s)]) THEN RStrip(SubSeq(s, 1, Len(s) - 1)) ELSE s

\* str.strip()
Strip(s) == RStrip(LStrip(s))

RECURSIVE SplitFrom(_, _, _)
SplitFrom(s, d, cur) ==
    IF s = <<>> THEN <<cur>>
    ELSE IF Head(s) = d THEN <<cur>> \o SplitFrom(Tail(s), d, <<>>)
         ELSE SplitFrom(Tail(s), d, Append(cur, Head(s)))

\* str.split(d) for a one-character d: ''.split(d) is ['']
Split(s, d) == SplitFrom(s, d, <<>>)

\* str.upper() on one character
UpperChar(c) ==
    CASE c = "a" -> "A" [] c = "b" -> "B" [] c = "c" -> "C" [] c = "d" -> "D"
      [] c = "e" -> "E" [] c = "f" -> "F" [] c = "g" -> "G" [] c = "h" -> "H"
      [] c = "i" -> "I" [] c = "j" -> "J" [] c = "k" -> "K" [] c = "l" -> "L"
      [] c = "m" -> "M" [] c = "n" -> "N" [] c = "o" -> "O" [] c = "p" -> "P"
      [] c = "q" -> "Q" [] c = "r" -> "R" [] c = "s" -> "S" [] c = "t" -> "T"
      [] c = "u" -> "U" [] c = "v" -> "V" [] c = "w" -> "W" [] c = "x" -> "X"
      [] c = "y" -> "Y" [] c = "z" -> "Z"
      [] OTHER -> c

\* str.upper()
Upper(s) == [i \in 1..Len(s) |-> UpperChar(s[i])]

\* sub in s
Contains(s, sub) ==
    \E i \in 0..(Len(s) - Len(sub)) : SubSeq(s, i + 1, i + Len(sub)) = sub

\* s.startswith(t)
StartsWith(s, t) == Len(t) <= Len(s) /\ SubSeq(s, 1, Len(t)) = t

\* s.endswith(t)
EndsWith(s, t) == Len(t) <= Len(s) /\ SubSeq(s, Len(s) - Len(t) + 1, Len(s)) = t

\* state_column_index is None
NoIndex == 0 - 1

\* headers.index(name), 0-based; NoIndex when it raises ValueError
ListIndex(l, x) ==
    IF \E i \in 1..Len(l) : l[i] = x
    THEN (CHOOSE i \in 1..Len(l) : l[i] = x /\ \A j \in 1..(i - 1) : l[j] # x) - 1
    ELSE NoIndex

\* state_column_index computed from the header line (84-89, 172-177)
StateColumnIndex(header) == ListIndex(Split(Strip(header), delimiter), state_code_column)

\* The fallback test of one key on one line (105-107, 192-194)
FallbackMatch(line, key) ==
    \/ Contains(line, <<delimiter>> \o key \o <<delimiter>>)
    \/ StartsWith(line, key \o <<delimiter>>)
    \/ EndsWith(line, <<delimiter>> \o key)

\* Does filter_file_by_state write this record (95-109)
KeepSingle(line, idx, state_code) ==
    IF idx # NoIndex
    THEN LET columns == Split(Strip(line), delimiter)
         IN  Len(columns) > idx /\ Strip(columns[idx + 1]) = state_code
    ELSE FallbackMatch(line, state_code)

\* Does the combined pass write this record (182-196)
KeepMulti(line, idx, states_set) ==
    IF idx # NoIndex
    THEN LET columns == Split(Strip(line), delimiter)
         IN  Len(columns) > idx /\ Upper(Strip(columns[idx + 1])) \in states_set
    ELSE \E k \in states_set : FallbackMatch(line, k)

\* The records filter_file_by_state writes, in order
RECURSIVE KeptLinesSingle(_, _, _)
KeptLinesSingle(lines, idx, state_code) ==
    IF lines = <<>> THEN <<>>
    ELSE (IF KeepSingle(Head(lines), idx, state_code) THEN <<Head(lines)>> ELSE <<>>)
         \o KeptLinesSingle(Tail(lines), idx, state_code)

\* The records the combined pass writes, in order
RECURSIVE KeptLinesMulti(_, _, _)
KeptLinesMulti(lines, idx, states_set) ==
    IF lines = <<>> THEN <<>>
    ELSE (IF KeepMulti(Head(lines), idx, states_set) THEN <<Head(lines)>> ELSE <<>>)
         \o KeptLinesMulti(Tail(lines), idx, states_set)

\* The lines filter_file_by_state(input_file, state_code) writes (75-112)
FilterFileByState(file, state_code) ==
    IF file = <<>> THEN <<>>
    ELSE <<Head(file)>>
         \o KeptLinesSingle(Tail(file), StateColumnIndex(Head(file)), state_code)

\* The files filter_multiple_states(input_file, states) returns (137-212)
FilterMultipleStates(file, states) ==
    IF states = <<>> THEN <<>>
    ELSE IF Len(states) = 1 THEN << FilterFileByState(file, states[1]) >>
    ELSE LET states_set == {Upper(states[i]) : i \in 1..Len(states)}
         IN  << IF file = <<>> THEN <<>>
                ELSE <<Head(file)>>
                     \o KeptLinesMulti(Tail(file), StateColumnIndex(Head(file)),
                                       states_set) >>

\* The characters of the records
RecordChars == {TAB, "C", "c", "N"}

\* Sequences over S of length n
SeqsOfLen(S, n) == [1..n -> S]

\* Sequences over S of length at most n
SeqsUpTo(S, n) == UNION {SeqsOfLen(S, k) : k \in 0..n}

\* The header lines: the key column first, second, second after an empty
\* first column name, and absent
Headers == { <<"S", TAB, "I", NL>>, <<"I", TAB, "S", NL>>,
             <<TAB, "S", NL>>, <<"I", TAB, "I", NL>> }

\* The partition keys a dataset may request
KeyDomain == { <<"C">>, <<"c">>, <<"N">> }

\* An extracted file with a header and up to MaxRecords records, each ended
\* by a newline (the last one possibly not), and a list of up to MaxKeys
\* requested keys.
FilterInit ==
    /\ \E h \in Headers, recs \in SeqsUpTo(SeqsUpTo(RecordChars, MaxLineLen), MaxRecords),
          finalNewline \in BOOLEAN :
          input_file = <<h>> \o [i \in 1..Len(recs) |->
                                   IF i = Len(recs) /\ ~finalNewline /\ recs[i] # <<>>
                                   THEN recs[i] ELSE Append(recs[i], NL)]
    /\ states_to_use \in SeqsUpTo(KeyDomain, MaxKeys)
    /\ multiDone = FALSE
    /\ multiOut = <<>>
    /\ singleIdx = 0
    /\ singleOut = <<>>

\* filter_multiple_states(input_file, states=states_to_use)
RunFilterMultipleStates ==
    /\ ~multiDone
    /\ multiDone' = TRUE
    /\ multiOut' = FilterMultipleStates(input_file, states_to_use)
    /\ UNCHANGED <<input_file, states_to_use, singleIdx, singleOut>>
    /\ UNCHANGED filterOthers

\* filter_file_by_state(input_file, k) for the next requested key k
RunFilterFileByState ==
    /\ multiDone
    /\ singleIdx < Len(states_to_use)
    /\ singleIdx' = singleIdx + 1
    /\ singleOut' = Append(singleOut, FilterFileByState(input_file, states_to_use[singleIdx + 1]))
    /\ UNCHANGED <<input_file, states_to_use, multiDone, multiOut>>
    /\ UNCHANGED filterOthers

FilterNext == RunFilterMultipleStates \/ RunFilterFileByState

InitFilter == FilterInit /\ CleanupIdle /\ DlIdle /\ MatchIdle /\ RunIdle /\ ProcIdle /\
    ZipIdle /\ ExtIdle /\ UploadIdle /\ NameIdle /\ PathIdle /\ GuardIdle

SpecFilter == InitFilter /\ [][FilterNext]_vars

\* The range of a sequence
Range(s) == {s[i] : i \in 1..Len(s)}

\* Both filters have run for the requested keys
FiltersDone == multiDone /\ singleIdx = Len(states_to_use)

\* The records of the input that at least one single-key output holds, in
\* input order
OrderedUnionOfSingles ==
    LET InSome(r) == \E i \in 1..Len(singleOut) : r \in Range(Tail(singleOut[i]))
    IN  SelectSeq(Tail(input_file), InSome)

\* C6: for two or more distinct requested keys the records written by the
\* single pass of filter_multiple_states are, in the same order, the
\* input-order union of the records filter_file_by_state writes for each key.
C6_MultiEqualsUnionOfSingles ==
    (FiltersDone /\ Len(states_to_use) >= 2
       /\ Cardinality(Range(states_to_use)) = Len(states_to_use))
    => Tail(multiOut[1]) = OrderedUnionOfSingles

\* A line without its line end
WithoutNewline(line) ==
    IF line # <<>> /\ line[Len(line)] = NL THEN SubSeq(line, 1, Len(line) - 1) ELSE line

\* The columns of a delimited line
Columns(line) == Split(WithoutNewline(line), delimiter)

\* The 0-based position of the partition-key column in the header
KeyColumn == ListIndex(Columns(Head(input_file)), state_code_column)

\* The header followed by the records whose partition-key column equals one of
\* the requested keys, in input order
ExpectedFiltered ==
    LET Matches(r) == /\ Len(Columns(r)) > KeyColumn
                      /\ Columns(r)[KeyColumn + 1] \in Range(states_to_use)
    IN  <<Head(input_file)>> \o SelectSeq(Tail(input_file), Matches)

\* C7: when the header contains the partition-key column and the key set is
\* not empty, the filtered output is the header followed by exactly the
\* records whose partition-key column value equals one of the requested keys,
\* in original line order.
C7_OutputIsHeaderPlusMatching ==
    (multiDone /\ states_to_use # <<>> /\ KeyColumn # NoIndex)
    => multiOut = << ExpectedFiltered >>

(***************************************************************************)
(* Match group: FTPDownloader._filter_files_by_dataset and                 *)
(* _filename_has_excluded_state (ftp_downloader.py:98-205)                 *)
(* A name is the list of its characters.                                   *)
(***************************************************************************)

\* Longest generated remote name
MaxNameLen == 4

Str_AVM ==
    <<"A", "V", "M">>
Str_Assessor ==
    <<"A", "s", "s", "e", "s", "s", "o", "r">>
Str_PARCEL ==
    <<"P", "A", "R", "C", "E", "L">>
Str_PREFORECLOSURE ==
    <<"P", "R", "E", "F", "O", "R", "E", "C", "L", "O", "S", "U", "R", "E">>
Str_PROPERTYTOBOUNDARYMATCH_PARCEL ==
    <<"P", "R", "O", "P", "E", "R", "T", "Y", "T", "O", "B", "O", "U", "N",
     "D", "A", "R", "Y", "M", "A", "T", "C", "H", "_", "P", "A", "R", "C", "E", "L">>
Str_Parcel ==
    <<"P", "a", "r", "c", "e", "l">>
Str_PreForeclosure ==
    <<"P", "r", "e", "F", "o", "r", "e", "c", "l", "o", "s", "u", "r", "e">>
Str_RECORDER ==
    <<"R", "E", "C", "O", "R", "D", "E", "R">>
Str_Recorder ==
    <<"R", "e", "c", "o", "r", "d", "e", "r">>
Str_TAXASSESSOR ==
    <<"T", "A", "X", "A", "S", "S", "E", "S", "S", "O", "R">>

\* _get_parser_keyword (98-115)
GetParserKeyword(name) ==
    CASE name = Str_Assessor -> Str_TAXASSESSOR
      [] name = Str_AVM -> Str_AVM
      [] name = Str_Parcel -> Str_PARCEL
      [] name = Str_PROPERTYTOBOUNDARYMATCH_PARCEL -> Str_PARCEL
      [] name = Str_Recorder -> Str_RECORDER
      [] name = Str_PreForeclosure -> Str_PREFORECLOSURE
      [] OTHER -> Upper(name)

\* parser_keyword (154): the override, when not empty, else the mapped name
ParserKeyword ==
    Upper(IF parser_keyword_cfg # <<>> THEN parser_keyword_cfg
          ELSE GetParserKeyword(dataset_name))

\* str.replace(old, new) for one-character old and new
ReplaceChar(s, old, new) == [i \in 1..Len(s) |-> IF s[i] = old THEN new ELSE s[i]]

\* parts (165-166, 127-128)
Parts(file) ==
    Split(ReplaceChar(ReplaceChar(Upper(file), ".", "_"), "-", "_"), "_")

\* [s.upper() for s in l] (157, 181, 123)
UpperAll(l) == [i \in 1..Len(l) |-> Upper(l[i])]

\* x in l for a list l
InList(x, l) == \E i \in 1..Len(l) : l[i] = x

\* state_found (174-178): the first part that is a configured state, <<>> for None
StateFound(parts, states_upper) ==
    IF \E i \in 1..Len(parts) : InList(parts[i], states_upper)
    THEN parts[CHOOSE i \in 1..Len(parts) :
                  /\ InList(parts[i], states_upper)
                  /\ \A j \in 1..(i - 1) : ~InList(parts[j], states_upper)]
    ELSE <<>>

\* _filename_has_excluded_state (117-132)
FilenameHasExcludedState(file_name) ==
    LET excluded == UpperAll(exclude_states)
        parts == Parts(file_name)
    IN  IF excluded = <<>> THEN FALSE
        ELSE \E i \in 1..Len(parts) : InList(parts[i], excluded)

SelectsFile_StateOnly(file) ==
    LET parts == Parts(file)
        parser == InList(ParserKeyword, parts) \/ Contains(Upper(file), ParserKeyword)
        state_found == StateFound(parts, UpperAll(self_states))
    IN  IF state_found # <<>> /\ InList(state_found, UpperAll(exclude_states)) THEN FALSE
        ELSE IF ignore_states THEN parser
        ELSE state_found # <<>> \/ (parser /\ allow_parser_only)

\* The body of the loop over files (164-202): is the file appended to filtered
SelectsFile(file) ==
    LET file_upper == Upper(file)
        parts == Parts(file)
        parser_in_parts == InList(ParserKeyword, parts)
        parser_in_name == Contains(file_upper, ParserKeyword)
        state_found == StateFound(parts, UpperAll(self_states))
        exclude_states_upper == UpperAll(exclude_states)
    IN  IF state_found # <<>> /\ InList(state_found, exclude_states_upper) THEN FALSE
        ELSE IF ignore_states THEN parser_in_parts \/ parser_in_name
        ELSE IF parser_in_parts \/ parser_in_name
             THEN IF state_found # <<>> THEN TRUE ELSE allow_parser_only
             ELSE FALSE

\* _filter_files_by_dataset (134-205)
RECURSIVE FilterFilesByDataset(_)
FilterFilesByDataset(fs) ==
    IF fs = <<>> THEN <<>>
    ELSE (IF SelectsFile(Head(fs)) THEN <<Head(fs)>> ELSE <<>>)
         \o FilterFilesByDataset(Tail(fs))

\* The characters of the generated remote names
NameChars == {"K", "C", "c", "_"}

\* Names of the incoming folder (tmp_test_filter.py:14-20 and the spec's examples)
ExampleNames == {
      <<"1", "P", "A", "R", "K", "P", "L", "A", "C", "E", "_", "T", "A", "X",
       "A", "S", "S", "E", "S", "S", "O", "R", "_", "0", "0", "1", "8", ".",
       "z", "i", "p">>,
      <<"1", "P", "A", "R", "K", "P", "L", "A", "C", "E", "_", "C", "A", "_",
       "R", "E", "C", "O", "R", "D", "E", "R", "_", "0", "0", "0", "1", "_",
       "0", "0", "1", ".", "z", "i", "p">>,
      <<"T", "A", "X", "A", "S", "S", "E", "S", "S", "O", "R", "_", "N", "A",
       "T", "I", "O", "N", "A", "L", ".", "z", "i", "p">>,
      <<"S", "O", "M", "E", "T", "H", "I", "N", "G", "_", "2", "0", "1", "8",
       ".", "z", "i", "p">>,
      <<"2", "C", "I", "T", "Y", "_", "T", "X", "_", "T", "A", "X", "A", "S",
       "S", "E", "S", "S", "O", "R", "_", "0", "0", "0", "2", ".", "z", "i",
       "p">>,
      <<"1", "P", "A", "R", "K", "P", "L", "A", "C", "E", "_", "C", "A", "_",
       "T", "A", "X", "A", "S", "S", "E", "S", "S", "O", "R", "_", "0", "0",
       "0", "1", ".", "z", "i", "p">> }

\* The remote names
RemoteNames == ExampleNames \cup (SeqsUpTo(NameChars, MaxNameLen) \ {<<>>})

\* Lists of partition keys
KeyLists == { <<>>, << <<"C">> >>, << <<"c">> >>, << <<"T", "X">> >>,
              << <<"T", "X">>, <<"C", "A">>, <<"F", "L">> >> }

\* Lists of excluded keys
ExcludeLists == { <<>>, << <<"C">> >>, << <<"c">> >>, << <<"C", "A">> >> }

\* A listing of one remote name and a dataset configuration
MatchInit ==
    /\ \E n \in RemoteNames : files = <<n>>
    /\ dataset_name \in {Str_Assessor, <<"k">>}
    /\ parser_keyword_cfg \in {<<>>, <<"k">>}
    /\ ignore_states \in BOOLEAN
    /\ allow_parser_only \in BOOLEAN
    /\ exclude_states \in ExcludeLists
    /\ self_states \in KeyLists
    /\ matchDone = FALSE
    /\ filtered = <<>>
    /\ exstates = <<>>
    /\ cfg_states = <<>>
    /\ statesPicked = FALSE
    /\ dataset_states = <<>>

\* filtered = self._filter_files_by_dataset(files, dataset_config)
RunFilterFilesByDataset ==
    /\ ~matchDone
    /\ matchDone' = TRUE
    /\ filtered' = FilterFilesByDataset(files)
    /\ UNCHANGED <<files, dataset_name, parser_keyword_cfg, ignore_states,
                   allow_parser_only, exclude_states, self_states>>
    /\ UNCHANGED <<exstates, cfg_states, statesPicked, dataset_states>>
    /\ UNCHANGED matchOthers

MatchNext == RunFilterFilesByDataset

InitMatch == MatchInit /\ CleanupIdle /\ DlIdle /\ FilterIdle /\ RunIdle /\ ProcIdle /\
    ZipIdle /\ ExtIdle /\ UploadIdle /\ NameIdle /\ PathIdle /\ GuardIdle

SpecMatch == InitMatch /\ [][MatchNext]_vars

\* The uppercase tokens of a remote name
Tokens(n) == Range(Parts(n))

\* The dataset's partition keys and excluded keys, in uppercase
PartitionKeys == Range(UpperAll(self_states))
ExcludedKeys == Range(UpperAll(exclude_states))

\* (a) the type keyword is a token of the name or a substring of it
KeywordPresent(n) == ParserKeyword \in Tokens(n) \/ Contains(Upper(n), ParserKeyword)

\* (b) a token is a partition key, or keyword-only matches are allowed and
\* the name has no partition token, or states are ignored for matching
PartitionRule(n) ==
    \/ Tokens(n) \cap PartitionKeys # {}
    \/ (allow_parser_only /\ Tokens(n) \cap PartitionKeys = {})
    \/ ignore_states

SkippedAsExcluded(n) ==
    StateFound(Parts(n), UpperAll(self_states)) \in ExcludedKeys

C9_ExcludedTokenRejects ==
    matchDone => \A i \in 1..Len(files) :
        (Tokens(files[i]) \cap ExcludedKeys # {}) => ~InList(files[i], filtered)

\* Per-dataset lists of partition keys; <<>> is a dataset without the key
OverrideLists == { <<>>, << <<"T", "X">> >>, << <<"C", "A">>, <<"F", "L">> >> }

\* A listing of one of the example names and a dataset configuration with
\* its own state lists; self.states of the pipeline is handed to the
\* downloader as it is (etl_pipeline.py:49)
KeysInit ==
    /\ \E n \in ExampleNames : files = <<n>>
    /\ dataset_name \in {Str_Assessor, <<"k">>}
    /\ parser_keyword_cfg \in {<<>>, <<"k">>}
    /\ ignore_states \in BOOLEAN
    /\ allow_parser_only \in BOOLEAN
    /\ exclude_states \in ExcludeLists
    /\ self_states \in KeyLists
    /\ matchDone = FALSE
    /\ filtered = <<>>
    /\ exstates \in OverrideLists
    /\ cfg_states \in OverrideLists
    /\ statesPicked = FALSE
    /\ dataset_states = <<>>

\* a or b of Python for lists: the first one if it is not empty
Or(a, b) == IF a # <<>> THEN a ELSE b

\* dataset_states = dataset_config.get('exstates') or
\* dataset_config.get('states') or self.states (etl_pipeline.py:112), after
\* download_dataset has returned
PickDatasetStates ==
    /\ matchDone
    /\ ~statesPicked
    /\ statesPicked' = TRUE
    /\ dataset_states' = Or(exstates, Or(cfg_states, self_states))
    /\ UNCHANGED <<files, dataset_name, parser_keyword_cfg, ignore_states,
                   allow_parser_only, exclude_states, self_states, matchDone, filtered,
                   exstates, cfg_states>>
    /\ UNCHANGED matchOthers

KeysNext ==
    \/ RunFilterFilesByDataset
    \/ PickDatasetStates

InitKeys == KeysInit /\ CleanupIdle /\ DlIdle /\ FilterIdle /\ RunIdle /\ ProcIdle /\
    ZipIdle /\ ExtIdle /\ UploadIdle /\ NameIdle /\ PathIdle /\ GuardIdle

SpecKeys == InitKeys /\ [][KeysNext]_vars

\* C31: the partition keys the remote names were matched with are the keys
\* the records of the downloaded files are filtered by.
C31_MatchKeysAreFilterKeys ==
    statesPicked => PartitionKeys = Range(UpperAll(dataset_states))

\* The same for a dataset without a list of its own
C31_HoldsWithoutOverride ==
    (statesPicked /\ exstates = <<>> /\ cfg_states = <<>>) =>
        PartitionKeys = Range(UpperAll(dataset_states))

(***************************************************************************)
(* Run group: AttomETLPipeline.run_all_datasets (etl_pipeline.py:290-306)  *)
(* over                                                                    *)
(* FTPDownloader.download_dataset (ftp_downloader.py:425-661) and the      *)
(* handling of each downloaded archive in process_dataset (94-189).        *)
(* A dataset is the list of final filenames of its URLs, or of its matched *)
(* remote listing, that pass the prefix and exclusion guards, with its     *)
(* post_process_downloaded action.                                         *)
(***************************************************************************)

\* Most datasets of a run
MaxDatasets == 2

\* Most names of one dataset
MaxEntries == 2

LowerChar(c) ==
    CASE c = "A" -> "a" [] c = "B" -> "b" [] c = "C" -> "c" [] c = "D" -> "d"
      [] c = "E" -> "e" [] c = "F" -> "f" [] c = "G" -> "g" [] c = "H" -> "h"
      [] c = "I" -> "i" [] c = "J" -> "j" [] c = "K" -> "k" [] c = "L" -> "l"
      [] c = "M" -> "m" [] c = "N" -> "n" [] c = "O" -> "o" [] c = "P" -> "p"
      [] c = "Q" -> "q" [] c = "R" -> "r" [] c = "S" -> "s" [] c = "T" -> "t"
      [] c = "U" -> "u" [] c = "V" -> "v" [] c = "W" -> "w" [] c = "X" -> "x"
      [] c = "Y" -> "y" [] c = "Z" -> "z"
      [] OTHER -> c

\* str.lower()
Lower(s) == [i \in 1..Len(s) |-> LowerChar(s[i])]

\* The final filenames
FileNames == { <<"a">>, <<"A">>, <<"b">> }

\* post_process_downloaded (etl_pipeline.py:174)
DlActions == {"delete", "move", "copy"}

\* How a dataset names its files: a list of http(s) URLs, a list of ftp URLs,
\* or an FTP folder to browse (456, 488, 505, 552)
Modes == {"http", "ftp", "browse"}

\* Dataset configurations. delete_local stands for: a Spaces uploader is set,
\* save_mode is 'remote' and delete_local_after_upload is true (453-454, 497)
AllDatasetConfigs ==
    [names : SeqsUpTo(FileNames, MaxEntries), post_process_downloaded : DlActions,
     enabled : BOOLEAN, mode : Modes, delete_local : BOOLEAN]

\* The datasets of a pipeline run: enabled ones that keep what they download
\* (save_mode 'local', the default), and a disabled one
DatasetConfigs ==
    {d \in AllDatasetConfigs :
        /\ ~d.delete_local
        /\ d.mode \in {"http", "browse"}
        /\ d.enabled \/ (d.names = <<>> /\ d.post_process_downloaded = "delete"
                           /\ d.mode = "browse")}

\* The files a run can find in the downloads directory
InitialFiles == { <<"A">>, <<"b">> }

\* AttomETLPipeline(config_file) raised (main.py:21-45), or the run is about
\* to process its first dataset
RunInit ==
    /\ config_loaded \in BOOLEAN
    /\ IF config_loaded
       THEN /\ datasets \in SeqsUpTo(DatasetConfigs, MaxDatasets) \ {<<>>}
            /\ download_dir \in SUBSET InitialFiles
            /\ runPc = "start"
       ELSE /\ datasets = <<>>
            /\ download_dir = {}
            /\ runPc = "done"
    /\ existing_names = {}
    /\ downloaded_files = <<>>
    /\ transfers = [n \in FileNames |-> 0]
    /\ dsIdx = 1
    /\ entryIdx = 0
    /\ results = <<>>
    /\ outcomes = <<>>
    /\ calls = <<>>

\* The dataset being processed
Dataset == datasets[dsIdx]

\* for dataset_config in self.datasets: the next one, or the summary (304-306)
Advance ==
    /\ dsIdx' = dsIdx + 1
    /\ runPc' = IF dsIdx < Len(datasets) THEN "start" ELSE "done"

\* What one call of download_dataset did: the outcome per name, the list it
\* returned, and the error that ended it ("none", "connect", "list", "quit",
\* or "raise" when the exception left download_dataset)
CallRecord(returned, error) ==
    [ds |-> dsIdx, outcomes |-> outcomes, returned |-> returned, error |-> error]

LastCall == calls[Len(calls)]

\* if not dataset_config.get('enabled', True): status 'skipped' (etl_pipeline.py:87-89)
SkipDisabled ==
    /\ runPc = "start"
    /\ ~Dataset.enabled
    /\ results' = Append(results, "skipped")
    /\ Advance
    /\ UNCHANGED <<datasets, config_loaded, download_dir, existing_names,
                   downloaded_files, transfers, entryIdx, outcomes, calls>>
    /\ UNCHANGED runOthers

StartDownloadDataset_CaseSensitive ==
    /\ runPc = "start"
    /\ Dataset.enabled
    /\ existing_names' = download_dir
    /\ downloaded_files' = <<>>
    /\ outcomes' = <<>>
    /\ entryIdx' = 1
    /\ runPc' = "loop"
    /\ UNCHANGED <<datasets, config_loaded, download_dir, transfers, dsIdx, results, calls>>
    /\ UNCHANGED runOthers

\* existing_names = {p.name.lower() for p in self.download_dir.iterdir()} (445-450);
\* in browse mode the connection and the listing succeeded (553-584)
StartDownloadDataset ==
    /\ runPc = "start"
    /\ Dataset.enabled
    /\ existing_names' = {Lower(n) : n \in download_dir}
    /\ downloaded_files' = <<>>
    /\ outcomes' = <<>>
    /\ entryIdx' = 1
    /\ runPc' = "loop"
    /\ UNCHANGED <<datasets, config_loaded, download_dir, transfers, dsIdx, results, calls>>
    /\ UNCHANGED runOthers

\* self._connect() raises in browse mode: except ... return [] (554, 659-661)
ConnectFails ==
    /\ runPc = "start"
    /\ Dataset.enabled
    /\ Dataset.mode = "browse"
    /\ existing_names' = {Lower(n) : n \in download_dir}
    /\ downloaded_files' = <<>>
    /\ outcomes' = <<>>
    /\ calls' = Append(calls, [ds |-> dsIdx, outcomes |-> <<>>, returned |-> <<>>,
                               error |-> "connect"])
    /\ runPc' = "returned"
    /\ UNCHANGED <<datasets, config_loaded, download_dir, transfers, dsIdx, entryIdx, results>>
    /\ UNCHANGED runOthers

\* The pattern listing and the full listing fail: _list_files_in_folder
\* returns [], nothing is matched, download_dataset returns [] (80-96, 566-584)
ListFails ==
    /\ runPc = "start"
    /\ Dataset.enabled
    /\ Dataset.mode = "browse"
    /\ existing_names' = {Lower(n) : n \in download_dir}
    /\ downloaded_files' = <<>>
    /\ outcomes' = <<>>
    /\ calls' = Append(calls, [ds |-> dsIdx, outcomes |-> <<>>, returned |-> <<>>,
                               error |-> "list"])
    /\ runPc' = "returned"
    /\ UNCHANGED <<datasets, config_loaded, download_dir, transfers, dsIdx, entryIdx, results>>
    /\ UNCHANGED runOthers

\* The name download_dataset is looking at
CurrentName == Dataset.names[entryIdx]

InLoop == runPc = "loop" /\ entryIdx <= Len(Dataset.names)

\* The downloads directory after the optional upload of local_path to Spaces:
\* with delete_local the file is unlinked unless the upload or the unlink
\* raised (492-504, 533-544, 639-651)
AfterSpacesUpload(dir) ==
    IF Dataset.delete_local THEN {dir, dir \ {CurrentName}} ELSE {dir}

\* if file_name.lower() in existing_names: append and continue (464-467,
\* 609-630); for an ftp URL the upload step follows (523-544)
SkipExisting ==
    /\ InLoop
    /\ Lower(CurrentName) \in existing_names
    /\ downloaded_files' = Append(downloaded_files, CurrentName)
    /\ outcomes' = Append(outcomes, "skipped")
    /\ download_dir' \in (IF Dataset.mode = "ftp" THEN AfterSpacesUpload(download_dir)
                          ELSE {download_dir})
    /\ entryIdx' = entryIdx + 1
    /\ UNCHANGED <<datasets, config_loaded, existing_names, transfers, dsIdx, runPc,
                   results, calls>>
    /\ UNCHANGED runOthers

TransferSucceeds_Prepends ==
    /\ InLoop
    /\ Lower(CurrentName) \notin existing_names
    /\ download_dir' \in AfterSpacesUpload(download_dir \cup {CurrentName})
    /\ transfers' = [transfers EXCEPT ![CurrentName] = @ + 1]
    /\ downloaded_files' = <<CurrentName>> \o downloaded_files
    /\ outcomes' = Append(outcomes, "ok")
    /\ entryIdx' = entryIdx + 1
    /\ UNCHANGED <<datasets, config_loaded, existing_names, dsIdx, runPc, results, calls>>
    /\ UNCHANGED runOthers

\* The transfer helper returns True: the final file is in place (488-491,
\* 527-529, 632-635); the upload step follows
TransferSucceeds ==
    /\ InLoop
    /\ Lower(CurrentName) \notin existing_names
    /\ download_dir' \in AfterSpacesUpload(download_dir \cup {CurrentName})
    /\ transfers' = [transfers EXCEPT ![CurrentName] = @ + 1]
    /\ downloaded_files' = Append(downloaded_files, CurrentName)
    /\ outcomes' = Append(outcomes, "ok")
    /\ entryIdx' = entryIdx + 1
    /\ UNCHANGED <<datasets, config_loaded, existing_names, dsIdx, runPc, results, calls>>
    /\ UNCHANGED runOthers

\* The transfer helper returns False, or raises inside a per-file try
\* (490, 530-531, 545-546, 636-638, 652-654); for an ftp URL the upload step
\* follows all the same
TransferFails ==
    /\ InLoop
    /\ Lower(CurrentName) \notin existing_names
    /\ download_dir' \in (IF Dataset.mode = "ftp" THEN AfterSpacesUpload(download_dir)
                          ELSE {download_dir})
    /\ outcomes' = Append(outcomes, "failed")
    /\ entryIdx' = entryIdx + 1
    /\ UNCHANGED <<datasets, config_loaded, existing_names, downloaded_files,
                   transfers, dsIdx, runPc, results, calls>>
    /\ UNCHANGED runOthers

\* An http URL's helper raises before its retry loop (local_path.parent.mkdir,
\* 229-230): no try surrounds the call (488-490), the exception leaves
\* download_dataset
DownloadRaises ==
    /\ InLoop
    /\ Dataset.mode = "http"
    /\ Lower(CurrentName) \notin existing_names
    /\ calls' = Append(calls, CallRecord(<<>>, "raise"))
    /\ runPc' = "returned"
    /\ UNCHANGED <<datasets, config_loaded, download_dir, existing_names,
                   downloaded_files, transfers, dsIdx, entryIdx, results, outcomes>>
    /\ UNCHANGED runOthers

\* return downloaded_files (550, 656), in browse mode after ftp.quit() (656-657)
EndDownloadDataset ==
    /\ runPc = "loop"
    /\ entryIdx > Len(Dataset.names)
    /\ calls' = Append(calls, CallRecord(downloaded_files, "none"))
    /\ runPc' = "returned"
    /\ UNCHANGED <<datasets, config_loaded, download_dir, existing_names,
                   downloaded_files, transfers, dsIdx, entryIdx, results, outcomes>>
    /\ UNCHANGED runOthers

\* ftp.quit() raises after the loop of browse mode, on the control connection
\* that sat idle during the transfers: except ... return [] (656, 659-661)
QuitFails ==
    /\ runPc = "loop"
    /\ entryIdx > Len(Dataset.names)
    /\ Dataset.mode = "browse"
    /\ calls' = Append(calls, CallRecord(<<>>, "quit"))
    /\ runPc' = "returned"
    /\ UNCHANGED <<datasets, config_loaded, download_dir, existing_names,
                   downloaded_files, transfers, dsIdx, entryIdx, results, outcomes>>
    /\ UNCHANGED runOthers

\* download_dataset raised: process_dataset returns status 'failed'
\* (etl_pipeline.py:278-288)
ProcessFailed ==
    /\ runPc = "returned"
    /\ LastCall.error = "raise"
    /\ results' = Append(results, "failed")
    /\ Advance
    /\ UNCHANGED <<datasets, config_loaded, download_dir, existing_names,
                   downloaded_files, transfers, entryIdx, outcomes, calls>>
    /\ UNCHANGED runOthers

\* if not downloaded_files: status 'no_files' (etl_pipeline.py:96-99)
NoFiles ==
    /\ runPc = "returned"
    /\ LastCall.error # "raise"
    /\ LastCall.returned = <<>>
    /\ results' = Append(results, "no_files")
    /\ Advance
    /\ UNCHANGED <<datasets, config_loaded, download_dir, existing_names,
                   downloaded_files, transfers, entryIdx, outcomes, calls>>
    /\ UNCHANGED runOthers

\* for zip_file in downloaded_files (102)
BeginPost ==
    /\ runPc = "returned"
    /\ LastCall.error # "raise"
    /\ LastCall.returned # <<>>
    /\ entryIdx' = 1
    /\ runPc' = "post"
    /\ UNCHANGED <<datasets, config_loaded, download_dir, existing_names,
                   downloaded_files, transfers, dsIdx, results, outcomes, calls>>
    /\ UNCHANGED runOthers

InPost == runPc = "post" /\ entryIdx <= Len(downloaded_files)

\* The archive was processed: if zip_file.exists(), 'move' and the default
\* 'delete' take it out of the downloads directory, 'copy' keeps it (169-187)
PostProcessDownloaded ==
    /\ InPost
    /\ download_dir' =
         IF Dataset.post_process_downloaded = "copy" THEN download_dir
         ELSE download_dir \ {downloaded_files[entryIdx]}
    /\ entryIdx' = entryIdx + 1
    /\ UNCHANGED <<datasets, config_loaded, existing_names, downloaded_files,
                   transfers, dsIdx, runPc, results, outcomes, calls>>
    /\ UNCHANGED runOthers

\* Processing the archive raised, or the post-processing failed: the archive
\* stays where it is (186-189)
PostProcessFails ==
    /\ InPost
    /\ entryIdx' = entryIdx + 1
    /\ UNCHANGED <<datasets, config_loaded, download_dir, existing_names,
                   downloaded_files, transfers, dsIdx, runPc, results, outcomes, calls>>
    /\ UNCHANGED runOthers

\* The uploads and the cleanup are guarded (192-265): status 'success' (270-276)
NextDataset ==
    /\ runPc = "post"
    /\ entryIdx > Len(downloaded_files)
    /\ results' = Append(results, "success")
    /\ Advance
    /\ UNCHANGED <<datasets, config_loaded, download_dir, existing_names,
                   downloaded_files, transfers, entryIdx, outcomes, calls>>
    /\ UNCHANGED runOthers

RunNext ==
    \/ SkipDisabled
    \/ StartDownloadDataset
    \/ ConnectFails
    \/ ListFails
    \/ SkipExisting
    \/ TransferSucceeds
    \/ TransferFails
    \/ DownloadRaises
    \/ EndDownloadDataset
    \/ QuitFails
    \/ ProcessFailed
    \/ NoFiles
    \/ BeginPost
    \/ PostProcessDownloaded
    \/ PostProcessFails
    \/ NextDataset

InitRun == RunInit /\ CleanupIdle /\ DlIdle /\ FilterIdle /\ MatchIdle /\ ProcIdle /\
    ZipIdle /\ ExtIdle /\ UploadIdle /\ NameIdle /\ PathIdle /\ GuardIdle

SpecRun == InitRun /\ [][RunNext]_vars

\* C10: within one run no final filename is transferred more than once.
C10_TransferredAtMostOnce ==
    \A n \in DOMAIN transfers : transfers[n] <= 1

(***************************************************************************)
(* download_dataset called twice for one dataset, with nothing else        *)
(* touching the downloads directory in between (ftp_downloader.py:425-661) *)
(***************************************************************************)

\* One enabled dataset of any mode, asked for twice
TwiceInit ==
    /\ config_loaded = TRUE
    /\ \E d \in AllDatasetConfigs :
          /\ d.enabled
          /\ d.post_process_downloaded = "delete"
          /\ datasets = <<d>>
    /\ download_dir \in SUBSET InitialFiles
    /\ runPc = "start"
    /\ existing_names = {}
    /\ downloaded_files = <<>>
    /\ transfers = [n \in FileNames |-> 0]
    /\ dsIdx = 1
    /\ entryIdx = 0
    /\ results = <<>>
    /\ outcomes = <<>>
    /\ calls = <<>>

\* The second call of download_dataset for the same dataset_config
CallAgain ==
    /\ runPc = "returned"
    /\ Len(calls) = 1
    /\ runPc' = "start"
    /\ UNCHANGED <<datasets, config_loaded, download_dir, existing_names,
                   downloaded_files, transfers, dsIdx, entryIdx, results, outcomes, calls>>
    /\ UNCHANGED runOthers

TwiceNext ==
    \/ StartDownloadDataset
    \/ ConnectFails
    \/ ListFails
    \/ SkipExisting
    \/ TransferSucceeds
    \/ TransferFails
    \/ DownloadRaises
    \/ EndDownloadDataset
    \/ QuitFails
    \/ CallAgain

InitTwice == TwiceInit /\ CleanupIdle /\ DlIdle /\ FilterIdle /\ MatchIdle /\ ProcIdle /\
    ZipIdle /\ ExtIdle /\ UploadIdle /\ NameIdle /\ PathIdle /\ GuardIdle

SpecTwice == InitTwice /\ [][TwiceNext]_vars

\* A call started a transfer: it has an outcome other than "skipped"
StartedTransfer(call) ==
    \E i \in 1..Len(call.outcomes) : call.outcomes[i] # "skipped"

FirstRunComplete ==
    /\ calls[1].error = "none"
    /\ \A i \in 1..Len(calls[1].outcomes) : calls[1].outcomes[i] # "failed"
    /\ ~datasets[1].delete_local

RECURSIVE KeptEntries(_, _)
KeptEntries(names, outs) ==
    IF names = <<>> \/ outs = <<>> THEN <<>>
    ELSE (IF Head(outs) \in {"ok", "skipped"} THEN <<Head(names)>> ELSE <<>>)
         \o KeptEntries(Tail(names), Tail(outs))

\* C13: a call of download_dataset that has its list of entries goes through
\* every entry whatever transfers fail, does not raise, and returns exactly
\* the entries fetched or already present, in order.
C13_ContinuesPastFailures ==
    \A k \in 1..Len(calls) :
        calls[k].error \notin {"connect", "list"} =>
            /\ calls[k].error # "raise"
            /\ Len(calls[k].outcomes) = Len(datasets[calls[k].ds].names)
            /\ calls[k].returned =
                 KeptEntries(datasets[calls[k].ds].names, calls[k].outcomes)

(***************************************************************************)
(* The summary of run_all_datasets (etl_pipeline.py:308-337) and the exit  *)
(* code of main (main.py:17-45, etl_pipeline.py:340-353)                   *)
(***************************************************************************)

\* sum(1 for r in results if r['status'] ...)
CountStatus(S) == Cardinality({i \in 1..Len(results) : results[i] \in S})

\* success_count (310)
SuccessCount == CountStatus({"success"})

\* failed_count (311)
FailedCount == CountStatus({"failed"})

\* skipped_count (312)
SkippedCount == CountStatus({"skipped", "no_files"})

\* 'total': len(results) (331)
Total == Len(results)

ExitCode_AnyUnsuccessful ==
    IF config_loaded /\ FailedCount + SkippedCount = 0 THEN 0 ELSE 1

\* sys.exit(1) if results['failed'] > 0 or the pipeline raised, else sys.exit(0)
ExitCode ==
    IF config_loaded /\ FailedCount = 0 THEN 0 ELSE 1

\* C15: a dataset whose download ended with a dataset-level error has status
\* 'failed', and every dataset after it is still processed.
C15_DatasetErrorIsFailed ==
    /\ \A k \in 1..Len(calls) :
          (calls[k].error # "none" /\ calls[k].ds <= Len(results))
              => results[calls[k].ds] = "failed"
    /\ (runPc = "done" /\ config_loaded) => Len(results) = Len(datasets)

\* C16: at the end of a run every configured dataset has exactly one result,
\* success + failed + skipped = total = number of datasets, and the exit code
\* is non-zero iff some dataset failed or the configuration did not load.
C16_SummaryAndExitCode ==
    runPc = "done" =>
        /\ config_loaded => Len(results) = Len(datasets)
        /\ SuccessCount + FailedCount + SkippedCount = Total
        /\ Total = Len(datasets)
        /\ ExitCode # 0 <=>
             (~config_loaded \/ \E i \in 1..Len(results) : results[i] = "failed")

\* A run of two datasets, one failed and one without files, exits with 1.
C16_Witness ==
    /\ runPc = "done"
    /\ results = <<"no_files", "failed">>
    /\ SkippedCount = 1 /\ FailedCount = 1
    /\ ExitCode = 1

(***************************************************************************)
(* Proc group: the loop of AttomETLPipeline.process_dataset over the       *)
(* downloaded archives (etl_pipeline.py:100-276). An extracted file and    *)
(* what is made from it (its filtered file, its filtered archive) are      *)
(* named by <<archive, member>>; filter_multiple_states returns at most    *)
(* one filtered file per extracted file.                                   *)
(***************************************************************************)

\* Most downloaded archives of a dataset
MaxArchives == 2

\* Most files one archive extracts to
MaxMembers == 2

ProcInit ==
    /\ \E n \in 1..MaxArchives : members \in [1..n -> 0..MaxMembers]
    /\ uploader_set \in BOOLEAN
    /\ procIdx = 1
    /\ memberIdx = 0
    /\ procPc = "extract"
    /\ filtered_dir = {}
    /\ zip_files = {}
    /\ built_zips = <<>>
    /\ attempted = {}
    /\ skipped = {}
    /\ handled = {}
    /\ handed = <<>>
    /\ procStatus = "running"
    /\ dl_action \in DlActions
    /\ downloads = DOMAIN members
    /\ filter_failed = {}

\* The extracted file the loop body is looking at
Current == <<procIdx, memberIdx>>

\* except Exception as e: "Error processing ..." and the next archive (188-189)
SkipArchive ==
    /\ skipped' = skipped \cup {procIdx}
    /\ procIdx' = procIdx + 1
    /\ procPc' = "extract"

\* extracted_files = self.extractor.move_and_extract(zip_file) returns (105)
ExtractOk ==
    /\ procPc = "extract"
    /\ procIdx <= Len(members)
    /\ attempted' = attempted \cup {procIdx}
    /\ memberIdx' = 1
    /\ procPc' = "member"
    /\ UNCHANGED <<members, uploader_set, procIdx, filtered_dir, zip_files, built_zips,
                   skipped, handled, handed, procStatus>>
    /\ UNCHANGED <<dl_action, downloads, filter_failed>>
    /\ UNCHANGED procOthers

ExtractFails_Aborts ==
    /\ procPc = "extract"
    /\ procIdx <= Len(members)
    /\ attempted' = attempted \cup {procIdx}
    /\ skipped' = skipped \cup {procIdx}
    /\ procPc' = "done"
    /\ procStatus' = "failed"
    /\ UNCHANGED <<members, uploader_set, procIdx, memberIdx, filtered_dir, zip_files,
                   built_zips, handled, handed>>
    /\ UNCHANGED <<dl_action, downloads, filter_failed>>
    /\ UNCHANGED procOthers

\* move_and_extract raises: the archive is skipped (105, 188-189)
ExtractFails ==
    /\ procPc = "extract"
    /\ procIdx <= Len(members)
    /\ attempted' = attempted \cup {procIdx}
    /\ SkipArchive
    /\ UNCHANGED <<members, uploader_set, memberIdx, filtered_dir, zip_files, built_zips,
                   handled, handed, procStatus>>
    /\ UNCHANGED <<dl_action, downloads, filter_failed>>
    /\ UNCHANGED procOthers

InMembers == procPc = "member" /\ memberIdx <= members[procIdx]

\* The extracted file is no .txt or .csv, or filter_multiple_states returns []
\* for want of states: no archive is built and the extracted file is unlinked
\* (108, 114-116, 165-166; state_filter.py:139-141)
NothingFiltered ==
    /\ InMembers
    /\ handled' = handled \cup {Current}
    /\ memberIdx' = memberIdx + 1
    /\ UNCHANGED <<members, uploader_set, procIdx, procPc, filtered_dir, zip_files,
                   built_zips, attempted, skipped, handed, procStatus>>
    /\ UNCHANGED <<dl_action, downloads, filter_failed>>
    /\ UNCHANGED procOthers

\* Filtering fails: filter_multiple_states logs the exception and returns [],
\* so the loop body goes on as for a file with nothing to filter
\* (114-116, 165-166; state_filter.py:143-149, 210-212)
FilterFails ==
    /\ InMembers
    /\ filter_failed' = filter_failed \cup {Current}
    /\ handled' = handled \cup {Current}
    /\ memberIdx' = memberIdx + 1
    /\ UNCHANGED <<members, uploader_set, procIdx, procPc, filtered_dir, zip_files,
                   built_zips, attempted, skipped, handed, procStatus>>
    /\ UNCHANGED <<dl_action, downloads>>
    /\ UNCHANGED procOthers

\* filter_multiple_states returns the filtered file it wrote (114)
FilterOk ==
    /\ InMembers
    /\ filtered_dir' = filtered_dir \cup {Current}
    /\ procPc' = "compress"
    /\ UNCHANGED <<members, uploader_set, procIdx, memberIdx, zip_files, built_zips,
                   attempted, skipped, handled, handed, procStatus>>
    /\ UNCHANGED <<dl_action, downloads, filter_failed>>
    /\ UNCHANGED procOthers

\* compress_to_zip returns the archive it moved into place (138-142)
CompressOk ==
    /\ procPc = "compress"
    /\ zip_files' = zip_files \cup {Current}
    /\ procPc' = "check"
    /\ UNCHANGED <<members, uploader_set, procIdx, memberIdx, filtered_dir, built_zips,
                   attempted, skipped, handled, handed, procStatus>>
    /\ UNCHANGED <<dl_action, downloads, filter_failed>>
    /\ UNCHANGED procOthers

\* compress_to_zip raises: the rest of the archive is skipped (138-142, 188-189)
CompressRaises ==
    /\ procPc = "compress"
    /\ SkipArchive
    /\ UNCHANGED <<members, uploader_set, memberIdx, filtered_dir, zip_files, built_zips,
                   attempted, handled, handed, procStatus>>
    /\ UNCHANGED <<dl_action, downloads, filter_failed>>
    /\ UNCHANGED procOthers

\* The archive is gone or empty by the time process_dataset looks at it
ZipLost ==
    /\ procPc = "check"
    /\ Current \in zip_files
    /\ zip_files' = zip_files \ {Current}
    /\ UNCHANGED <<members, uploader_set, procIdx, memberIdx, procPc, filtered_dir,
                   built_zips, attempted, skipped, handled, handed, procStatus>>
    /\ UNCHANGED <<dl_action, downloads, filter_failed>>
    /\ UNCHANGED procOthers

CheckZip_AlwaysRemoves ==
    /\ procPc = "check"
    /\ filtered_dir' = filtered_dir \ {Current}
    /\ built_zips' = Append(built_zips, Current)
    /\ handled' = handled \cup {Current}
    /\ memberIdx' = memberIdx + 1
    /\ procPc' = "member"
    /\ UNCHANGED <<members, uploader_set, procIdx, zip_files, attempted, skipped,
                   handed, procStatus>>
    /\ UNCHANGED <<dl_action, downloads, filter_failed>>
    /\ UNCHANGED procOthers

\* if filtered_zip and filtered_zip.exists() and st_size > 0: the filtered
\* file is unlinked or moved to processed_dir, unless that raises; else it is
\* kept; all_filtered_zips.append(filtered_zip) in both cases (143-166)
CheckZip ==
    /\ procPc = "check"
    /\ \E removed \in (IF Current \in zip_files THEN BOOLEAN ELSE {FALSE}) :
          filtered_dir' = IF removed THEN filtered_dir \ {Current} ELSE filtered_dir
    /\ built_zips' = Append(built_zips, Current)
    /\ handled' = handled \cup {Current}
    /\ memberIdx' = memberIdx + 1
    /\ procPc' = "member"
    /\ UNCHANGED <<members, uploader_set, procIdx, zip_files, attempted, skipped,
                   handed, procStatus>>
    /\ UNCHANGED <<dl_action, downloads, filter_failed>>
    /\ UNCHANGED procOthers

\* The extracted files are through: if zip_file.exists(), the downloaded
\* archive is moved to processed_dir ('move'), copied there and kept ('copy')
\* or unlinked (otherwise); a failure of that is only warned about; the next
\* archive follows (168-187)
EndMembers ==
    /\ procPc = "member"
    /\ memberIdx > members[procIdx]
    /\ \E raised \in BOOLEAN :
          downloads' = IF dl_action = "copy" \/ raised
                       THEN downloads
                       ELSE downloads \ {procIdx}
    /\ procIdx' = procIdx + 1
    /\ procPc' = "extract"
    /\ UNCHANGED <<members, uploader_set, memberIdx, filtered_dir, zip_files, built_zips,
                   attempted, skipped, handled, handed, procStatus>>
    /\ UNCHANGED <<dl_action, filter_failed>>
    /\ UNCHANGED procOthers

\* After the loop: if all_filtered_zips and self.uploader, the list goes to
\* upload_multiple_files; the uploads and the cleanup are guarded; status
\* 'success' (191-276)
UploadAndReturn ==
    /\ procPc = "extract"
    /\ procIdx > Len(members)
    /\ handed' = IF uploader_set THEN built_zips ELSE <<>>
    /\ procStatus' = "success"
    /\ procPc' = "done"
    /\ UNCHANGED <<members, uploader_set, procIdx, memberIdx, filtered_dir, zip_files,
                   built_zips, attempted, skipped, handled>>
    /\ UNCHANGED <<dl_action, downloads, filter_failed>>
    /\ UNCHANGED procOthers

ProcNext ==
    \/ ExtractOk
    \/ ExtractFails
    \/ NothingFiltered
    \/ FilterFails
    \/ FilterOk
    \/ CompressOk
    \/ CompressRaises
    \/ ZipLost
    \/ CheckZip
    \/ EndMembers
    \/ UploadAndReturn

InitProc == ProcInit /\ CleanupIdle /\ DlIdle /\ FilterIdle /\ MatchIdle /\ RunIdle /\
    ZipIdle /\ ExtIdle /\ UploadIdle /\ NameIdle /\ PathIdle /\ GuardIdle

SpecProc == InitProc /\ [][ProcNext]_vars

\* C14: when process_dataset has gone through its archives, every archive was
\* handed to the extractor, every archive that did not raise had all its
\* extracted files handled, the archives built are all handed to the
\* uploader, and the status is not 'failed'.
C14_ArchiveFailureSkipsOnlyThatArchive ==
    procPc = "done" =>
        /\ attempted = 1..Len(members)
        /\ \A a \in (1..Len(members)) \ skipped :
              \A m \in 1..members[a] : <<a, m>> \in handled
        /\ uploader_set => handed = built_zips
        /\ \A z \in zip_files : InList(z, built_zips)
        /\ procStatus # "failed"

\* The first archive built a filtered archive, the second failed to extract,
\* and the first one's archive is handed to the uploader.
C14_Witness ==
    /\ procPc = "done" /\ procStatus = "success"
    /\ Len(members) = 2 /\ skipped = {2}
    /\ <<1, 1>> \in zip_files
    /\ uploader_set /\ handed = << <<1, 1>> >>

\* A filtered file leaves the filtered directory only in the step that found
\* its archive in place with non-zero size
C18_RemovedOnlyAfterGoodZip ==
    \A f \in filtered_dir :
        f \notin filtered_dir' => (procPc = "check" /\ f = Current /\ f \in zip_files)

\* C18: the filtered files of an extracted file are deleted or moved only if
\* the archive built from them exists with non-zero size; when the build
\* raises or the archive is missing or empty they all stay.
C18_FilteredKeptUnlessZipGood == [][C18_RemovedOnlyAfterGoodZip]_vars

\* One filtered file was removed after its archive was built, and one is kept
\* because the build of its archive raised.
C18_Witness ==
    /\ procPc = "done"
    /\ <<1, 1>> \in zip_files /\ <<1, 1>> \notin filtered_dir
    /\ 2 \in skipped /\ <<2, 1>> \in filtered_dir /\ <<2, 1>> \notin zip_files

\* C27: with post_process_downloaded 'delete', a downloaded archive leaves
\* the downloads directory only if none of its extracted files failed to
\* filter.
C27_DownloadKeptWhenFilterFails ==
    dl_action = "delete" =>
        \A a \in DOMAIN members :
            a \notin downloads => \A f \in filter_failed : f[1] # a

\* An archive whose processing raised out of the loop body is kept
C27_SkippedArchiveKept ==
    \A a \in skipped : a \in downloads

(***************************************************************************)
(* Zip group: StateFilter.compress_to_zip (state_filter.py:214-262), called *)
(* up to MaxBuilds times for one archive name. A file is a record: the      *)
(* entries written to it, whether the ZipFile was closed, and the entries   *)
(* the build that made it had to write.                                     *)
(***************************************************************************)

\* Most files handed to one call of compress_to_zip
MaxZipInputs == 2

\* Most builds of the same archive name
MaxBuilds == 2

\* The lists of files, each file present or not when its turn comes
ZipInputLists == UNION {[1..n -> BOOLEAN] : n \in 1..MaxZipInputs}

RECURSIVE Present(_, _)
\* The positions of the files that exist, in order: the entries a build writes
Present(inputs, i) ==
    IF i > Len(inputs) THEN <<>>
    ELSE IF inputs[i] THEN <<i>> \o Present(inputs, i + 1)
    ELSE Present(inputs, i + 1)

\* A completely written archive: every entry written and the archive closed
Complete(f) == f.exists /\ f.closed /\ f.entries = f.want

ZipInit ==
    /\ zipInputs \in ZipInputLists
    /\ zipIdx = 0
    /\ zipPc = "open"
    /\ temp_zip = Absent
    /\ output_zip = Absent
    /\ builds = 1

\* zipfile.ZipFile(temp_zip, 'w', ...) creates or truncates the .part file (231-232)
ZipOpen ==
    /\ zipPc = "open"
    /\ temp_zip' = [exists |-> TRUE, closed |-> FALSE, entries |-> <<>>,
                    want |-> Present(zipInputs, 1)]
    /\ zipIdx' = 1
    /\ zipPc' = "write"
    /\ UNCHANGED <<zipInputs, output_zip, builds>>
    /\ UNCHANGED zipOthers

\* Opening the .part file raises: logged and re-raised (232, 260-262)
ZipOpenRaises ==
    /\ zipPc = "open"
    /\ zipPc' = "raised"
    /\ UNCHANGED <<zipInputs, zipIdx, temp_zip, output_zip, builds>>
    /\ UNCHANGED zipOthers

InZipLoop == zipPc = "write" /\ zipIdx <= Len(zipInputs)

\* if file_path.exists() is false: the file is passed over (233-234)
ZipSkipMissing ==
    /\ InZipLoop
    /\ ~zipInputs[zipIdx]
    /\ zipIdx' = zipIdx + 1
    /\ UNCHANGED <<zipInputs, zipPc, temp_zip, output_zip, builds>>
    /\ UNCHANGED zipOthers

\* zipf.write(file_path, arcname) (234-253)
ZipWrite ==
    /\ InZipLoop
    /\ zipInputs[zipIdx]
    /\ temp_zip' = [temp_zip EXCEPT !.entries = Append(@, zipIdx)]
    /\ zipIdx' = zipIdx + 1
    /\ UNCHANGED <<zipInputs, zipPc, output_zip, builds>>
    /\ UNCHANGED zipOthers

ZipWriteRaises_Promotes ==
    /\ InZipLoop
    /\ zipInputs[zipIdx]
    /\ output_zip' = [temp_zip EXCEPT !.closed = TRUE]
    /\ temp_zip' = Absent
    /\ zipPc' = "raised"
    /\ UNCHANGED <<zipInputs, zipIdx, builds>>
    /\ UNCHANGED zipOthers

\* zipf.write raises: the with block closes the .part file as it stands,
\* the error is logged and re-raised (232-253, 260-262)
ZipWriteRaises ==
    /\ InZipLoop
    /\ zipInputs[zipIdx]
    /\ temp_zip' = [temp_zip EXCEPT !.closed = TRUE]
    /\ zipPc' = "raised"
    /\ UNCHANGED <<zipInputs, zipIdx, output_zip, builds>>
    /\ UNCHANGED zipOthers

\* The with block ends: the archive is closed (232-254)
ZipClose ==
    /\ zipPc = "write"
    /\ zipIdx > Len(zipInputs)
    /\ temp_zip' = [temp_zip EXCEPT !.closed = TRUE]
    /\ zipPc' = "replace"
    /\ UNCHANGED <<zipInputs, zipIdx, output_zip, builds>>
    /\ UNCHANGED zipOthers

\* Closing the archive raises: logged and re-raised (232, 260-262)
ZipCloseRaises ==
    /\ zipPc = "write"
    /\ zipIdx > Len(zipInputs)
    /\ zipPc' = "raised"
    /\ UNCHANGED <<zipInputs, zipIdx, temp_zip, output_zip, builds>>
    /\ UNCHANGED zipOthers

\* temp_zip.replace(output_zip); return output_zip (256-258)
ZipReplace ==
    /\ zipPc = "replace"
    /\ output_zip' = temp_zip
    /\ temp_zip' = Absent
    /\ zipPc' = "returned"
    /\ UNCHANGED <<zipInputs, zipIdx, builds>>
    /\ UNCHANGED zipOthers

\* temp_zip.replace raises: logged and re-raised (256, 260-262)
ZipReplaceRaises ==
    /\ zipPc = "replace"
    /\ zipPc' = "raised"
    /\ UNCHANGED <<zipInputs, zipIdx, temp_zip, output_zip, builds>>
    /\ UNCHANGED zipOthers

\* compress_to_zip is called again for the same archive name
ZipCallAgain ==
    /\ zipPc \in {"returned", "raised"}
    /\ builds < MaxBuilds
    /\ zipInputs' \in ZipInputLists
    /\ zipIdx' = 0
    /\ zipPc' = "open"
    /\ builds' = builds + 1
    /\ UNCHANGED <<temp_zip, output_zip>>
    /\ UNCHANGED zipOthers

ZipNext ==
    \/ ZipOpen
    \/ ZipOpenRaises
    \/ ZipSkipMissing
    \/ ZipWrite
    \/ ZipWriteRaises
    \/ ZipClose
    \/ ZipCloseRaises
    \/ ZipReplace
    \/ ZipReplaceRaises
    \/ ZipCallAgain

InitZip == ZipInit /\ CleanupIdle /\ DlIdle /\ FilterIdle /\ MatchIdle /\ RunIdle /\
    ProcIdle /\ ExtIdle /\ UploadIdle /\ NameIdle /\ PathIdle /\ GuardIdle

SpecZip == InitZip /\ [][ZipNext]_vars

\* The final path holds nothing or a completely written archive
C17_FinalAbsentOrComplete == output_zip.exists => Complete(output_zip)

\* The final path changes only by the move of a complete, closed .part file
C17_MovedOnlyWhenComplete ==
    output_zip' # output_zip =>
        (zipPc = "replace" /\ Complete(temp_zip) /\ output_zip' = temp_zip)

\* C17: the archive is written to the .part path and moved onto the final
\* path only after every entry was written and the archive closed; in every
\* state, after a build that raised too, the final path is absent, holds an
\* earlier complete archive, or holds a complete archive.
C17_PartThenMove == [](C17_FinalAbsentOrComplete) /\ [][C17_MovedOnlyWhenComplete]_vars

\* The second build raised part-way: its .part file is left incomplete and
\* the final path still holds the archive of the first build.
C17_Witness ==
    /\ zipPc = "raised" /\ builds = 2
    /\ temp_zip.exists /\ ~Complete(temp_zip)
    /\ Complete(output_zip)

(***************************************************************************)
(* Ext group: Extractor.move_and_extract (extractor.py:20-71) on one       *)
(* archive. The staging folder extracted/<archive-stem> may be there from   *)
(* an earlier run: process_dataset unlinks the extracted files, never the   *)
(* folder.                                                                  *)
(***************************************************************************)

\* Most members of one archive
MaxZipMembers == 4

ExtInit ==
    /\ zip_present \in BOOLEAN
    /\ namelist \in 1..MaxZipMembers
    /\ extIdx = 0
    /\ extPc = "start"
    /\ extract_folder \in BOOLEAN
    /\ staged = {}
    /\ extracted_files = <<>>
    /\ extFailed = FALSE
    /\ cleanup_warned = FALSE

\* if not zip_path.exists(): raise FileNotFoundError (39-41)
ExtZipMissing ==
    /\ extPc = "start"
    /\ ~zip_present
    /\ extPc' = "raised"
    /\ UNCHANGED <<zip_present, namelist, extIdx, extract_folder, staged,
                   extracted_files, extFailed, cleanup_warned>>
    /\ UNCHANGED extOthers

\* extract_folder.mkdir(parents=True, exist_ok=True) (45-46)
ExtMkdir ==
    /\ extPc = "start"
    /\ zip_present
    /\ extract_folder' = TRUE
    /\ extIdx' = 1
    /\ extPc' = "extract"
    /\ UNCHANGED <<zip_present, namelist, staged, extracted_files, extFailed,
                   cleanup_warned>>
    /\ UNCHANGED extOthers

\* z.extract(member, extract_folder); a member that is a file is appended
\* to extracted_files (52-58)
ExtMember ==
    /\ extPc = "extract"
    /\ extIdx <= namelist
    /\ staged' = staged \cup {extIdx}
    /\ \E is_file \in BOOLEAN :
          extracted_files' = IF is_file THEN Append(extracted_files, extIdx)
                             ELSE extracted_files
    /\ extIdx' = extIdx + 1
    /\ UNCHANGED <<zip_present, namelist, extPc, extract_folder, extFailed, cleanup_warned>>
    /\ UNCHANGED extOthers

\* return extracted_files (60)
ExtReturn ==
    /\ extPc = "extract"
    /\ extIdx > namelist
    /\ extPc' = "returned"
    /\ UNCHANGED <<zip_present, namelist, extIdx, extract_folder, staged,
                   extracted_files, extFailed, cleanup_warned>>
    /\ UNCHANGED extOthers

\* Opening the archive or extracting a member raises: "Failed to extract" (49-63)
ExtRaises ==
    /\ extPc = "extract"
    /\ extIdx <= namelist
    /\ extFailed' = TRUE
    /\ extPc' = "cleanup"
    /\ UNCHANGED <<zip_present, namelist, extIdx, extract_folder, staged,
                   extracted_files, cleanup_warned>>
    /\ UNCHANGED extOthers

ExtCleanup_KeepsFolder ==
    /\ extPc = "cleanup"
    /\ extPc' = "raised"
    /\ UNCHANGED <<zip_present, namelist, extIdx, extract_folder, staged,
                   extracted_files, extFailed, cleanup_warned>>
    /\ UNCHANGED extOthers

\* shutil.rmtree(extract_folder), then raise (64-71)
ExtCleanup ==
    /\ extPc = "cleanup"
    /\ extract_folder' = FALSE
    /\ staged' = {}
    /\ extPc' = "raised"
    /\ UNCHANGED <<zip_present, namelist, extIdx, extracted_files, extFailed,
                   cleanup_warned>>
    /\ UNCHANGED extOthers

\* shutil.rmtree raises after removing some of the files: the warning is
\* logged, the folder stays, then raise (65-71)
ExtCleanupFails ==
    /\ extPc = "cleanup"
    /\ staged' \in SUBSET staged
    /\ cleanup_warned' = TRUE
    /\ extPc' = "raised"
    /\ UNCHANGED <<zip_present, namelist, extIdx, extract_folder, extracted_files,
                   extFailed>>
    /\ UNCHANGED extOthers

ExtNext ==
    \/ ExtZipMissing
    \/ ExtMkdir
    \/ ExtMember
    \/ ExtReturn
    \/ ExtRaises
    \/ ExtCleanup
    \/ ExtCleanupFails

InitExt == ExtInit /\ CleanupIdle /\ DlIdle /\ FilterIdle /\ MatchIdle /\ RunIdle /\
    ProcIdle /\ ZipIdle /\ UploadIdle /\ NameIdle /\ PathIdle /\ GuardIdle

SpecExt == InitExt /\ [][ExtNext]_vars

MaxUpRetries == 3

\* ftp_config.get('backoff_base', 5.0)
UpBackoffBase == 5

\* The remote folders a caller asks for
RemoteFolders == {"/", "/outgoing"}

\* Smallest value of self.retries
MinUpRetries == 0 - 1

UploadInit ==
    /\ up_retries \in MinUpRetries..MaxUpRetries
    /\ remote_folder \in RemoteFolders
    /\ upAttempt = 0
    /\ upPc = "loop"
    /\ cwdir = "none"
    /\ did_cwd = FALSE
    /\ verified = FALSE
    /\ stored = "none"
    /\ confirm = "none"
    /\ asked = {}
    /\ unconfirmed = 0
    /\ on_server = {}
    /\ up_slept = <<>>
    /\ upResult = "none"
    /\ open_conns = {}

\* The connections still open after last_exc = e (155): the exception bound
\* before is released, and with its traceback the connection a failed
\* _connect left behind
Rebound(conns) == {c \in conns : c[2] # "traceback"}

\* The connections still open after try: ftp.quit() except: pass (142-145,
\* 157-161): quit closes the socket unless the QUIT command raises
AfterQuit(conns, attempt_no, quit_ok) ==
    IF quit_ok THEN conns \ {<<attempt_no, "local">>} ELSE conns

\* max(1, self.retries) (78)
UpLoopLimit == IF up_retries > 1 THEN up_retries ELSE 1

\* while attempt < max(1, self.retries): attempt += 1 (78-80)
UpLoopEnter ==
    /\ upPc = "loop"
    /\ upAttempt < UpLoopLimit
    /\ upAttempt' = upAttempt + 1
    /\ upPc' = "connect"
    /\ cwdir' = "none"
    /\ did_cwd' = FALSE
    /\ verified' = FALSE
    /\ stored' = "none"
    /\ confirm' = "none"
    /\ UNCHANGED <<up_retries, remote_folder, unconfirmed, on_server, up_slept, upResult>>
    /\ asked' = {}
    /\ open_conns' = {c \in open_conns : c[2] # "local"}
    /\ UNCHANGED uploadOthers

\* except except_types: quit; if attempt < self.retries sleep
\* backoff_base * 2 ** (attempt - 1) and go round again, else return False
\* (154-169)
UpFailed ==
    IF upAttempt < up_retries
    THEN /\ up_slept' = Append(up_slept, UpBackoffBase * 2 ^ (upAttempt - 1))
         /\ upPc' = "loop"
         /\ UNCHANGED upResult
    ELSE /\ upResult' = "false"
         /\ upPc' = "done"
         /\ UNCHANGED up_slept

\* self._connect() raises (82): ftp.connect raises, or ftp.login raises on the
\* connection it has opened (35-41), which upload_file holds no reference to
UpConnectFails ==
    /\ upPc = "connect"
    /\ UpFailed
    /\ UNCHANGED <<up_retries, remote_folder, upAttempt, cwdir, did_cwd, verified, stored,
                   confirm, unconfirmed, on_server>>
    /\ UNCHANGED asked
    /\ \E logged_in \in BOOLEAN :
          open_conns' = Rebound(open_conns) \cup
              (IF logged_in THEN {} ELSE {<<upAttempt, "traceback">>})
    /\ UNCHANGED uploadOthers

\* self._connect() returns; ftp.cwd('/') succeeds or is ignored (82-87)
UpConnect ==
    /\ upPc = "connect"
    /\ \E root_ok \in BOOLEAN : cwdir' = IF root_ok THEN "/" ELSE "~"
    /\ upPc' = "cwd"
    /\ UNCHANGED <<up_retries, remote_folder, upAttempt, did_cwd, verified, stored, confirm,
                   unconfirmed, on_server, up_slept, upResult>>
    /\ UNCHANGED asked
    /\ open_conns' = open_conns \cup {<<upAttempt, "local">>}
    /\ UNCHANGED uploadOthers

\* _ensure_remote_dir: ftp.cwd(remote_dir) succeeds (57-59, 89-91)
UpCwd ==
    /\ upPc = "cwd"
    /\ cwdir' = remote_folder
    /\ did_cwd' = TRUE
    /\ upPc' = "stor"
    /\ UNCHANGED <<up_retries, remote_folder, upAttempt, verified, stored, confirm,
                   unconfirmed, on_server, up_slept, upResult>>
    /\ UNCHANGED asked
    /\ UNCHANGED open_conns
    /\ UNCHANGED uploadOthers

\* _ensure_remote_dir: ftp.cwd(remote_dir) raises, a warning is logged (60-65)
UpCwdFails ==
    /\ upPc = "cwd"
    /\ did_cwd' = FALSE
    /\ upPc' = "stor"
    /\ UNCHANGED <<up_retries, remote_folder, upAttempt, cwdir, verified, stored, confirm,
                   unconfirmed, on_server, up_slept, upResult>>
    /\ UNCHANGED asked
    /\ UNCHANGED open_conns
    /\ UNCHANGED uploadOthers

\* if did_cwd: ftp.storbinary('STOR <name>') completes (96-98)
UpStorByName ==
    /\ upPc = "stor"
    /\ did_cwd
    /\ on_server' = on_server \cup {cwdir}
    /\ stored' = cwdir
    /\ upPc' = "size"
    /\ UNCHANGED <<up_retries, remote_folder, upAttempt, cwdir, did_cwd, verified, confirm,
                   unconfirmed, up_slept, upResult>>
    /\ UNCHANGED asked
    /\ UNCHANGED open_conns
    /\ UNCHANGED uploadOthers

\* else: ftp.storbinary('STOR <remote_folder>/<name>') completes (108-111)
UpStorFullPath ==
    /\ upPc = "stor"
    /\ ~did_cwd
    /\ on_server' = on_server \cup {remote_folder}
    /\ stored' = remote_folder
    /\ upPc' = "size_full"
    /\ UNCHANGED <<up_retries, remote_folder, upAttempt, cwdir, did_cwd, verified, confirm,
                   unconfirmed, up_slept, upResult>>
    /\ UNCHANGED asked
    /\ UNCHANGED open_conns
    /\ UNCHANGED uploadOthers

\* The full-path STOR raises: f.seek(0) and the fallback STOR follows (128-131)
UpStorFullPathFails ==
    /\ upPc = "stor"
    /\ ~did_cwd
    /\ upPc' = "stor_default"
    /\ UNCHANGED <<up_retries, remote_folder, upAttempt, cwdir, did_cwd, verified, stored,
                   confirm, unconfirmed, on_server, up_slept, upResult>>
    /\ UNCHANGED asked
    /\ UNCHANGED open_conns
    /\ UNCHANGED uploadOthers

\* ftp.storbinary('STOR <name>') in the server's current directory completes (131)
UpStorDefault ==
    /\ upPc = "stor_default"
    /\ on_server' = on_server \cup {cwdir}
    /\ stored' = cwdir
    /\ upPc' = "size"
    /\ UNCHANGED <<up_retries, remote_folder, upAttempt, cwdir, did_cwd, verified, confirm,
                   unconfirmed, up_slept, upResult>>
    /\ UNCHANGED asked
    /\ UNCHANGED open_conns
    /\ UNCHANGED uploadOthers

\* A STOR outside a try block raises (98, 131)
UpStorFails ==
    /\ (upPc = "stor" /\ did_cwd) \/ upPc = "stor_default"
    /\ UpFailed
    /\ UNCHANGED <<up_retries, remote_folder, upAttempt, cwdir, did_cwd, verified, stored,
                   confirm, unconfirmed, on_server>>
    /\ UNCHANGED asked
    /\ \E quit_ok \in BOOLEAN :
          open_conns' = AfterQuit(Rebound(open_conns), upAttempt, quit_ok)
    /\ UNCHANGED uploadOthers

\* ftp.size(...) returns a size: verified = True (100-104, 113-117, 132-136)
UpSizeConfirms ==
    /\ upPc \in {"size", "size_full"}
    /\ verified' = TRUE
    /\ confirm' = "size"
    /\ upPc' = "finish"
    /\ UNCHANGED <<up_retries, remote_folder, upAttempt, cwdir, did_cwd, stored, unconfirmed,
                   on_server, up_slept, upResult>>
    /\ asked' = asked \cup {"SIZE"}
    /\ UNCHANGED open_conns
    /\ UNCHANGED uploadOthers

\* ftp.size(...) returns None, or raises where no listing is tried
\* (100-106, 113-114, 132-138)
UpSizeSilent ==
    /\ upPc \in {"size", "size_full"}
    /\ upPc' = "finish"
    /\ UNCHANGED <<up_retries, remote_folder, upAttempt, cwdir, did_cwd, verified, stored,
                   confirm, unconfirmed, on_server, up_slept, upResult>>
    /\ asked' = asked \cup {"SIZE"}
    /\ UNCHANGED open_conns
    /\ UNCHANGED uploadOthers

\* ftp.size(full_path) raises: the folder is listed next (118-120)
UpSizeRaises ==
    /\ upPc = "size_full"
    /\ upPc' = "nlst"
    /\ UNCHANGED <<up_retries, remote_folder, upAttempt, cwdir, did_cwd, verified, stored,
                   confirm, unconfirmed, on_server, up_slept, upResult>>
    /\ asked' = asked \cup {"SIZE"}
    /\ UNCHANGED open_conns
    /\ UNCHANGED uploadOthers

\* ftp.nlst(remote_folder) holds the name: verified = True (121-125)
UpListingConfirms ==
    /\ upPc = "nlst"
    /\ remote_folder \in on_server
    /\ verified' = TRUE
    /\ confirm' = "nlst"
    /\ upPc' = "finish"
    /\ UNCHANGED <<up_retries, remote_folder, upAttempt, cwdir, did_cwd, stored, unconfirmed,
                   on_server, up_slept, upResult>>
    /\ asked' = asked \cup {"NLST"}
    /\ UNCHANGED open_conns
    /\ UNCHANGED uploadOthers

\* ftp.nlst raises or does not hold the name (121-127)
UpListingFails ==
    /\ upPc = "nlst"
    /\ upPc' = "finish"
    /\ UNCHANGED <<up_retries, remote_folder, upAttempt, cwdir, did_cwd, verified, stored,
                   confirm, unconfirmed, on_server, up_slept, upResult>>
    /\ asked' = asked \cup {"NLST"}
    /\ UNCHANGED open_conns
    /\ UNCHANGED uploadOthers

UpReturnTrue_Unverified ==
    /\ upPc = "finish"
    /\ upResult' = "true"
    /\ upPc' = "done"
    /\ UNCHANGED <<up_retries, remote_folder, upAttempt, cwdir, did_cwd, verified, stored,
                   confirm, unconfirmed, on_server, up_slept>>
    /\ UNCHANGED asked
    /\ \E quit_ok \in BOOLEAN :
          open_conns' = AfterQuit(open_conns, upAttempt, quit_ok)
    /\ UNCHANGED uploadOthers

\* quit; if verified: return True (140-148)
UpReturnTrue ==
    /\ upPc = "finish"
    /\ verified
    /\ upResult' = "true"
    /\ upPc' = "done"
    /\ UNCHANGED <<up_retries, remote_folder, upAttempt, cwdir, did_cwd, verified, stored,
                   confirm, unconfirmed, on_server, up_slept>>
    /\ UNCHANGED asked
    /\ \E quit_ok \in BOOLEAN :
          open_conns' = AfterQuit(open_conns, upAttempt, quit_ok)
    /\ UNCHANGED uploadOthers

\* else: raise RuntimeError('Upload completed but verification failed'),
\* handled as a failed attempt (149-169)
UpUnverified ==
    /\ upPc = "finish"
    /\ ~verified
    /\ unconfirmed' = unconfirmed + 1
    /\ UpFailed
    /\ UNCHANGED <<up_retries, remote_folder, upAttempt, cwdir, did_cwd, verified, stored,
                   confirm, on_server>>
    /\ UNCHANGED asked
    /\ \E quit_ok \in BOOLEAN :
          open_conns' = AfterQuit(Rebound(open_conns), upAttempt, quit_ok)
    /\ UNCHANGED uploadOthers

UploadNext ==
    \/ UpLoopEnter
    \/ UpConnectFails
    \/ UpConnect
    \/ UpCwd
    \/ UpCwdFails
    \/ UpStorByName
    \/ UpStorFullPath
    \/ UpStorFullPathFails
    \/ UpStorDefault
    \/ UpStorFails
    \/ UpSizeConfirms
    \/ UpSizeSilent
    \/ UpSizeRaises
    \/ UpListingConfirms
    \/ UpListingFails
    \/ UpReturnTrue
    \/ UpUnverified

InitUpload == UploadInit /\ DlIdle /\ FilterIdle /\ MatchIdle /\ RunIdle /\ ZipIdle /\
    ExtIdle /\ ProcIdle /\ CleanupIdle /\ NameIdle /\ PathIdle /\ GuardIdle

SpecUpload == InitUpload /\ [][UploadNext]_vars

\* C23: upload_file returns True only if, in the attempt that returned and
\* after its STOR completed, the server confirmed the file by a SIZE reply or
\* a listing; a call whose last attempt stored without a confirmation returns
\* False.
C23_TrueOnlyIfConfirmed ==
    /\ upResult = "true" => (stored # "none" /\ confirm \in {"size", "nlst"})
    /\ (upPc = "done" /\ confirm = "none") => upResult = "false"

\* The first attempt stored the archive without a confirmation and was
\* retried; the second was confirmed by a listing and returned True.
C23_Witness ==
    /\ upResult = "true" /\ upAttempt = 2
    /\ unconfirmed = 1
    /\ confirm = "nlst"

\* C29: whenever upload_file returns True, the archive was stored in the
\* requested remote folder.
C29_StoredInRequestedFolder ==
    upResult = "true" => stored = remote_folder

\* C37: upload_file makes at least one and at most max(1, retries) attempts
\* for every retries value, returns in the first verified attempt, has
\* closed the connection of every failed attempt when the next attempt
\* connects, and ends by returning True or False.
C37_BoundedAttemptsClosedConnections ==
    /\ upAttempt <= UpLoopLimit
    /\ upPc = "done" => (upAttempt >= 1 /\ upResult \in {"true", "false"})
    /\ upResult = "true" => verified
    /\ ~(upPc = "loop" /\ upAttempt >= UpLoopLimit)
    /\ upPc = "connect" => open_conns = {}

\* The same without the closing of the connections
C37_BoundedAttemptsAndResult ==
    /\ upAttempt <= UpLoopLimit
    /\ upPc = "done" => (upAttempt >= 1 /\ upResult \in {"true", "false"})
    /\ upResult = "true" => verified
    /\ ~(upPc = "loop" /\ upAttempt >= UpLoopLimit)

(***************************************************************************)
(* Name group: the name of a filtered file (state_filter.py:65, 155) and   *)
(* the name of its entry in the archive (state_filter.py:234-253). Names   *)
(* are sequences of characters.                                            *)
(***************************************************************************)

\* Most pieces an extracted file's stem is put together from
MaxPieces == 3

\* '_filtered_'
Str_filtered == <<"_", "f", "i", "l", "t", "e", "r", "e", "d", "_">>

\* The pieces of the stems of the extracted files
StemPieces == {<<"A">>, <<"_">>, Str_filtered}

RECURSIVE Concat(_)
\* The pieces of a sequence of sequences, joined
Concat(ss) == IF ss = <<>> THEN <<>> ELSE Head(ss) \o Concat(Tail(ss))

\* The stems of the extracted files
ExtractedStems == {Concat(ps) : ps \in UNION {[1..n -> StemPieces] : n \in 1..MaxPieces}}

\* The suffixes of the extracted files process_dataset filters (etl_pipeline.py:108)
TextSuffixes == {<<".", "t", "x", "t">>, <<".", "c", "s", "v">>}

\* The state lists, in the order the names are joined
NameKeyLists == {<< <<"T", "X">> >>, << <<"T", "X">>, <<"C", "A">> >>,
                 << <<"C", "A">>, <<"T", "X">> >>}

\* The position of the last "." of a name, 0 if there is none
LastDot(name) ==
    IF \E i \in 1..Len(name) : name[i] = "."
    THEN CHOOSE i \in 1..Len(name) :
            name[i] = "." /\ \A j \in (i + 1)..Len(name) : name[j] # "."
    ELSE 0

\* Path.suffix: from the last "." on, unless that is the first or the last
\* character of the name
PathSuffix(name) ==
    IF 1 < LastDot(name) /\ LastDot(name) < Len(name)
    THEN SubSeq(name, LastDot(name), Len(name))
    ELSE <<>>

\* Path.stem: the name without its suffix
PathStem(name) == SubSeq(name, 1, Len(name) - Len(PathSuffix(name)))

\* The position of the first occurrence of sub in s, 0 if there is none
FindFirst(s, sub) ==
    IF \E i \in 1..(Len(s) - Len(sub) + 1) : SubSeq(s, i, i + Len(sub) - 1) = sub
    THEN CHOOSE i \in 1..(Len(s) - Len(sub) + 1) :
            /\ SubSeq(s, i, i + Len(sub) - 1) = sub
            /\ \A j \in 1..(i - 1) : SubSeq(s, j, j + Len(sub) - 1) # sub
    ELSE 0

\* s.split(sep)[0]: what stands before the first occurrence of sep
SplitHead(s, sep) ==
    IF FindFirst(s, sep) = 0 THEN s ELSE SubSeq(s, 1, FindFirst(s, sep) - 1)

RECURSIVE JoinKeys(_)
\* '_'.join(keys)
JoinKeys(ks) ==
    IF ks = <<>> THEN <<>>
    ELSE IF Len(ks) = 1 THEN Head(ks)
    ELSE Head(ks) \o <<"_">> \o JoinKeys(Tail(ks))

\* f"{input_file.stem}_filtered_{...}{input_file.suffix}" (65, 155)
FilteredName(name, ks) ==
    PathStem(name) \o Str_filtered \o JoinKeys(ks) \o PathSuffix(name)

\* arcname of compress_to_zip (241-251)
ArcName(file_name, prefix) ==
    IF prefix = <<>> THEN file_name
    ELSE LET stem == PathStem(file_name)
             base_stem == IF Contains(stem, Str_filtered)
                          THEN SplitHead(stem, Str_filtered)
                          ELSE stem
         IN  prefix \o base_stem \o PathSuffix(file_name)

NameInit ==
    /\ \E stem \in ExtractedStems, suffix \in TextSuffixes :
          extracted_name = stem \o suffix
    /\ name_keys \in NameKeyLists
    /\ inner_name_prefix \in {<<>>, <<"P", "_">>}
    /\ filtered_name = <<>>
    /\ arcname = <<>>
    /\ namePc = "filter"

\* filter_multiple_states names the filtered file (65, 155)
NameFilteredFile ==
    /\ namePc = "filter"
    /\ filtered_name' = FilteredName(extracted_name, name_keys)
    /\ namePc' = "compress"
    /\ UNCHANGED <<extracted_name, name_keys, inner_name_prefix, arcname>>
    /\ UNCHANGED nameOthers

\* compress_to_zip names the entry (241-252)
NameEntry ==
    /\ namePc = "compress"
    /\ arcname' = ArcName(filtered_name, inner_name_prefix)
    /\ namePc' = "done"
    /\ UNCHANGED <<extracted_name, name_keys, inner_name_prefix, filtered_name>>
    /\ UNCHANGED nameOthers

NameNext ==
    \/ NameFilteredFile
    \/ NameEntry

InitName == NameInit /\ DlIdle /\ FilterIdle /\ MatchIdle /\ RunIdle /\ ZipIdle /\ ExtIdle
    /\ UploadIdle /\ ProcIdle /\ CleanupIdle /\ PathIdle /\ GuardIdle

SpecName == InitName /\ [][NameNext]_vars

\* C24: with a prefix configured the entry is named prefix + the stem of the
\* extracted file + its extension, for every stem and every number of keys.
C24_EntryIsPrefixPlusOriginalStem ==
    (namePc = "done" /\ inner_name_prefix # <<>>) =>
        arcname = inner_name_prefix \o PathStem(extracted_name) \o PathSuffix(extracted_name)

\* The same for the stems that do not hold '_filtered_' themselves
C24_HoldsWithoutMarkerInStem ==
    (namePc = "done" /\ inner_name_prefix # <<>>
        /\ ~Contains(PathStem(extracted_name), Str_filtered)) =>
        arcname = inner_name_prefix \o PathStem(extracted_name) \o PathSuffix(extracted_name)

(***************************************************************************)
(* The list download_dataset returns, and the order of a run               *)
(***************************************************************************)

\* C28: every path download_dataset returns names a file that is in the
\* downloads directory under exactly that name when the call returns.
C28_ReturnedFilesExist ==
    (runPc = "returned" /\ LastCall.error = "none") =>
        \A i \in 1..Len(LastCall.returned) : LastCall.returned[i] \in download_dir

\* The same for the entries the call transferred itself, when the dataset
\* keeps its local files
C28_TransferredFilesExist ==
    (runPc = "returned" /\ LastCall.error = "none" /\ ~Dataset.delete_local) =>
        \A i \in 1..Len(LastCall.outcomes) :
            LastCall.outcomes[i] = "ok" => Dataset.names[i] \in download_dir

\* While the run is on, the datasets before the current one have their
\* result, one each; the files of the current dataset are gathered in the
\* order of its list; archives are processed only after download_dataset
\* returned
C25_InOrderSoFar ==
    config_loaded =>
        /\ Len(results) = (IF runPc = "done" THEN Len(datasets) ELSE dsIdx - 1)
        /\ runPc = "loop" =>
              downloaded_files = KeptEntries(SubSeq(Dataset.names, 1, entryIdx - 1), outcomes)
        /\ runPc = "post" =>
              /\ LastCall.ds = dsIdx
              /\ downloaded_files = LastCall.returned

\* A step moves on by one: to the next dataset together with the result of
\* the current one, to the next name of the list, or to the next downloaded
\* archive, which is the only one its post-processing touches
C25_StepInOrder ==
    /\ dsIdx' # dsIdx =>
          /\ dsIdx' = dsIdx + 1
          /\ \E st \in {"skipped", "no_files", "success", "failed"} :
                results' = Append(results, st)
    /\ results' # results => dsIdx' = dsIdx + 1
    /\ (runPc \in {"loop", "post"} /\ runPc' = runPc /\ entryIdx' # entryIdx) =>
          entryIdx' = entryIdx + 1
    /\ (runPc = "post" /\ download_dir' # download_dir) =>
          download_dir' = download_dir \ {downloaded_files[entryIdx]}
    /\ runPc' = "start" => runPc \notin {"loop", "post"} \/ dsIdx' = dsIdx + 1

\* C25: datasets are processed in configuration order with one result each in
\* that order; within a dataset the files are transferred and then processed
\* in the order of the listing; the next dataset starts only when the current
\* one is finished.
C25_ConfigAndListingOrder == [](C25_InOrderSoFar) /\ [][C25_StepInOrder]_vars

\* Two datasets are through: the first fetched two files in the order of its
\* list and processed them, the second found nothing.
C25_Witness ==
    /\ runPc = "done" /\ Len(datasets) = 2
    /\ Len(datasets[1].names) = 2 /\ datasets[1].names[1] # datasets[1].names[2]
    /\ calls[1].ds = 1 /\ calls[1].returned = datasets[1].names
    /\ results = <<"success", "no_files">>

(***************************************************************************)
(* Path group: the names process_dataset gives to what it builds from the  *)
(* extracted files of one run (etl_pipeline.py:107-163): the filtered file *)
(* (state_filter.py:65, 155) and the filtered archive, both in the one     *)
(* filtered directory. An extracted file is extracted_dir / <archive stem> *)
(* / <name>; only its name enters the names built from it.                 *)
(***************************************************************************)

\* Most extracted files of one run
MaxExtracted == 3

\* The names of the extracted files
ExtractedNames == { <<"a", ".", "t", "x", "t">>, <<"a", ".", "c", "s", "v">>,
                    <<"b", ".", "t", "x", "t">> }

\* The extracted files: the downloaded archive and the name
ExtractedFiles == [zip : 1..MaxArchives, name : ExtractedNames]

\* datetime.now().strftime('%Y%m%d') (etl_pipeline.py:121)
Str_date == <<"2", "0", "2", "6", "1", "1", "0", "5">>

\* '.zip'
Str_zip == <<".", "z", "i", "p">>

\* zip_name (etl_pipeline.py:120-130) for the dataset Assessor
ZipName(name, prefix) ==
    IF prefix # <<>>
    THEN prefix \o PathStem(name) \o Str_zip
    ELSE Str_Assessor \o <<"_">> \o PathStem(name) \o <<"_">> \o Str_date \o Str_zip

\* The extracted files of a run: different files, archive after archive
PathInit ==
    /\ \E n \in 1..MaxExtracted :
          /\ path_files \in [1..n -> ExtractedFiles]
          /\ \A i, j \in 1..n : i < j =>
                /\ path_files[i] # path_files[j]
                /\ path_files[i].zip <= path_files[j].zip
    /\ path_prefix \in {<<>>, <<"P", "_">>}
    /\ path_keys \in {<< <<"T", "X">> >>, << <<"T", "X">>, <<"C", "A">> >>}
    /\ pathIdx = 1
    /\ filtered_paths = <<>>
    /\ zip_paths = <<>>
    /\ zip_holds = {}
    /\ replaced = {}

\* The extracted file is no .txt or .csv, or filter_multiple_states returns
\* []: no path is built for the extracted file (108, 114-116)
PathNothing ==
    /\ pathIdx \in 1..Len(path_files)
    /\ pathIdx' = pathIdx + 1
    /\ UNCHANGED <<path_files, path_prefix, path_keys, filtered_paths, zip_paths,
                   zip_holds, replaced>>
    /\ UNCHANGED pathOthers

\* The extracted file is filtered into filtered_dir / <stem>_filtered_<keys>
\* <suffix>, the archive is built at filtered_dir / zip_name by moving the
\* .part file over whatever is there, and its path is appended to
\* all_filtered_zips (114-163; state_filter.py:155-156, 226-256)
PathBuild ==
    /\ pathIdx \in 1..Len(path_files)
    /\ LET name == path_files[pathIdx].name
           zip_name == ZipName(name, path_prefix)
       IN  /\ filtered_paths' = Append(filtered_paths, FilteredName(name, path_keys))
           /\ zip_paths' = Append(zip_paths, zip_name)
           /\ zip_holds' = {h \in zip_holds : h[1] # zip_name} \cup {<<zip_name, pathIdx>>}
           /\ replaced' = IF \E h \in zip_holds : h[1] = zip_name
                          THEN replaced \cup {zip_name}
                          ELSE replaced
    /\ pathIdx' = pathIdx + 1
    /\ UNCHANGED <<path_files, path_prefix, path_keys>>
    /\ UNCHANGED pathOthers

PathNext ==
    \/ PathNothing
    \/ PathBuild

InitPath == PathInit /\ DlIdle /\ FilterIdle /\ MatchIdle /\ RunIdle /\ ZipIdle /\ ExtIdle
    /\ UploadIdle /\ NameIdle /\ ProcIdle /\ CleanupIdle /\ GuardIdle

SpecPath == InitPath /\ [][PathNext]_vars

\* No two positions of a list hold the same element
NoDuplicates(l) == \A i, j \in 1..Len(l) : i # j => l[i] # l[j]

\* C32: in one run no two extracted files give the same archive path or the
\* same filtered-file path: no archive of the run is overwritten and the
\* list for the upload holds no path twice.
C32_PathsOfARunDiffer ==
    /\ NoDuplicates(zip_paths)
    /\ NoDuplicates(filtered_paths)
    /\ replaced = {}

\* The same for a run whose extracted files all differ in their stems
C32_HoldsForDifferentStems ==
    (\A i, j \in 1..Len(path_files) :
        i # j => PathStem(path_files[i].name) # PathStem(path_files[j].name)) =>
        /\ NoDuplicates(zip_paths)
        /\ NoDuplicates(filtered_paths)
        /\ replaced = {}

(***************************************************************************)
(* Guard group: FTPDownloader.download_dataset (ftp_downloader.py:425-661) *)
(* at the level of names: the listing of folder-browse mode, the dataset   *)
(* matching, and the guards an entry passes before it is transferred. The  *)
(* dataset configuration is that of the match group.                       *)
(***************************************************************************)

\* Most entries of a dataset: URLs or names in the folder
MaxGdEntries == 2

\* '<prefix><stem>.zip' as process_dataset names a filtered archive
Str_uploaded == ZipName(<<"K", "_", "C", ".", "t", "x", "t">>, <<"P", "_">>)

\* The names on the server
GdNames == { <<"K", "_", "C">>, <<"k", "_", "C">>, <<"K", "_", "T">>,
             <<"p", "_", "K", "_", "T">>, Str_uploaded }

GuardInit ==
    /\ gd_mode \in Modes
    /\ gd_entries \in (SeqsUpTo(GdNames, MaxGdEntries) \ {<<>>})
    /\ filtered_prefix \in {<<>>, <<"P", "_">>}
    /\ existing_lower \in ({{}} \cup {{Lower(n)} : n \in GdNames})
    /\ gdPc = IF gd_mode = "browse" THEN "list" ELSE "loop"
    /\ gdIdx = 1
    /\ pattern_answer = "none"
    /\ full_listing = "no"
    /\ gd_downloaded = <<>>
    /\ gd_transferred = <<>>
    /\ files = <<>>
    /\ dataset_name = <<"k">>
    /\ parser_keyword_cfg = <<>>
    /\ ignore_states \in BOOLEAN
    /\ allow_parser_only \in BOOLEAN
    /\ exclude_states \in {<<>>, << <<"c">> >>}
    /\ self_states \in {<< <<"C">> >>, << <<"C">>, <<"T">> >>}
    /\ matchDone = FALSE
    /\ filtered = <<>>
    /\ exstates = <<>>
    /\ cfg_states = <<>>
    /\ statesPicked = FALSE
    /\ dataset_states = <<>>

guardKept == <<gd_mode, gd_entries, filtered_prefix, existing_lower, dataset_name,
               parser_keyword_cfg, ignore_states, allow_parser_only, exclude_states,
               self_states, exstates, cfg_states, statesPicked, dataset_states>>

guardRest == <<cleanupVars, dlVars, filterVars, runVars, procVars, zipVars, extVars,
               uploadVars, nameVars, pathVars>>

RECURSIVE SelectContaining(_, _)
\* The names of a list that hold sub
SelectContaining(l, sub) ==
    IF l = <<>> THEN <<>>
    ELSE (IF Contains(Head(l), sub) THEN <<Head(l)>> ELSE <<>>)
         \o SelectContaining(Tail(l), sub)

\* What ftp.nlst('*<KEYWORD>*') can give: the names that hold the keyword as
\* it is written, or, from a server that ignores the pattern, every name
PatternAnswers == { SelectContaining(gd_entries, ParserKeyword), gd_entries }

\* What _list_files_in_folder gives: the names, or [] when listing raises (85-96)
FullListings == { gd_entries, <<>> }

\* The names are matched and the loop starts
GdMatched(all_files) ==
    /\ files' = all_files
    /\ filtered' = FilterFilesByDataset(all_files)
    /\ matchDone' = TRUE
    /\ gdPc' = "loop"
    /\ UNCHANGED <<gdIdx, gd_downloaded, gd_transferred>>
    /\ UNCHANGED guardKept
    /\ UNCHANGED guardRest

\* self._connect() raises: return [] (554, 659-661)
GdConnectFails ==
    /\ gdPc = "list"
    /\ gdPc' = "returned"
    /\ UNCHANGED <<gdIdx, pattern_answer, full_listing, gd_downloaded, gd_transferred,
                   files, filtered, matchDone>>
    /\ UNCHANGED guardKept
    /\ UNCHANGED guardRest

\* ftp.nlst(pattern) returns names: they go through the matching (567-575)
GdPatternNames ==
    /\ gdPc = "list"
    /\ \E answer \in PatternAnswers :
          /\ answer # <<>>
          /\ GdMatched(answer)
    /\ pattern_answer' = "names"
    /\ UNCHANGED full_listing

\* ftp.nlst(pattern) returns nothing: the full listing is matched (576-580)
GdPatternEmpty ==
    /\ gdPc = "list"
    /\ <<>> \in PatternAnswers
    /\ pattern_answer' = "empty"
    /\ \E all_files \in FullListings :
          /\ full_listing' = IF all_files = <<>> THEN "failed" ELSE "ok"
          /\ GdMatched(all_files)

\* ftp.nlst(pattern) raises: the full listing is matched (581-584)
GdPatternRaises ==
    /\ gdPc = "list"
    /\ pattern_answer' = "raised"
    /\ \E all_files \in FullListings :
          /\ full_listing' = IF all_files = <<>> THEN "failed" ELSE "ok"
          /\ GdMatched(all_files)

\* The list the loop goes through: the URLs (457), or filtered_files (586)
GdList == IF gd_mode = "browse" THEN filtered ELSE gd_entries

InGdLoop == gdPc = "loop" /\ gdIdx <= Len(GdList)

EntryOutcome_CaseSensitive(mode, file_name) ==
    LET exists == Lower(file_name) \in existing_lower
        is_ours == filtered_prefix # <<>> /\ StartsWith(file_name, filtered_prefix)
        excluded == FilenameHasExcludedState(file_name)
    IN  IF mode = "browse"
        THEN IF is_ours THEN "prefix"
             ELSE IF excluded THEN "excluded"
             ELSE IF exists THEN "existing"
             ELSE "transfer"
        ELSE IF exists THEN "existing"
             ELSE IF is_ours THEN "prefix"
             ELSE IF excluded THEN "excluded"
             ELSE "transfer"

\* What the loop body does with an entry. Direct URLs (458-486): the name
\* exists locally, else it starts with filtered_zip_prefix, else it holds an
\* excluded state, else it is transferred. Folder (586-630): the prefix
\* first, then the excluded state, then the local name.
EntryOutcome(mode, file_name) ==
    LET exists == Lower(file_name) \in existing_lower
        is_ours == /\ filtered_prefix # <<>>
                   /\ StartsWith(Upper(file_name), Upper(filtered_prefix))
        excluded == FilenameHasExcludedState(file_name)
    IN  IF mode = "browse"
        THEN IF is_ours THEN "prefix"
             ELSE IF excluded THEN "excluded"
             ELSE IF exists THEN "existing"
             ELSE "transfer"
        ELSE IF exists THEN "existing"
             ELSE IF is_ours THEN "prefix"
             ELSE IF excluded THEN "excluded"
             ELSE "transfer"

GdEntry == GdList[gdIdx]

\* "Skipping download (filename exists)": downloaded_files.append(local_path)
\* (464-467, 609-629)
GdSkipExisting ==
    /\ InGdLoop
    /\ EntryOutcome(gd_mode, GdEntry) = "existing"
    /\ gd_downloaded' = Append(gd_downloaded, GdEntry)
    /\ gdIdx' = gdIdx + 1
    /\ UNCHANGED <<gdPc, pattern_answer, full_listing, gd_transferred, files, filtered,
                   matchDone>>
    /\ UNCHANGED guardKept
    /\ UNCHANGED guardRest

\* "Skipping download of filtered/outgoing file" (473-481, 594-602)
GdSkipPrefix ==
    /\ InGdLoop
    /\ EntryOutcome(gd_mode, GdEntry) = "prefix"
    /\ gdIdx' = gdIdx + 1
    /\ UNCHANGED <<gdPc, pattern_answer, full_listing, gd_downloaded, gd_transferred,
                   files, filtered, matchDone>>
    /\ UNCHANGED guardKept
    /\ UNCHANGED guardRest

\* "Skipping download because filename contains excluded state" (484-486, 605-607)
GdSkipExcluded ==
    /\ InGdLoop
    /\ EntryOutcome(gd_mode, GdEntry) = "excluded"
    /\ gdIdx' = gdIdx + 1
    /\ UNCHANGED <<gdPc, pattern_answer, full_listing, gd_downloaded, gd_transferred,
                   files, filtered, matchDone>>
    /\ UNCHANGED guardRest
    /\ UNCHANGED guardKept

\* The transfer is made and succeeds: downloaded_files.append(local_path)
\* (488-490, 519-522, 631-634)
GdTransferOk ==
    /\ InGdLoop
    /\ EntryOutcome(gd_mode, GdEntry) = "transfer"
    /\ gd_transferred' = Append(gd_transferred, GdEntry)
    /\ gd_downloaded' = Append(gd_downloaded, GdEntry)
    /\ gdIdx' = gdIdx + 1
    /\ UNCHANGED <<gdPc, pattern_answer, full_listing, files, filtered, matchDone>>
    /\ UNCHANGED guardKept
    /\ UNCHANGED guardRest

\* The transfer is made and fails: the entry is left out (489, 523-524, 635-637)
GdTransferFails ==
    /\ InGdLoop
    /\ EntryOutcome(gd_mode, GdEntry) = "transfer"
    /\ gd_transferred' = Append(gd_transferred, GdEntry)
    /\ gdIdx' = gdIdx + 1
    /\ UNCHANGED <<gdPc, pattern_answer, full_listing, gd_downloaded, files, filtered,
                   matchDone>>
    /\ UNCHANGED guardKept
    /\ UNCHANGED guardRest

\* return downloaded_files (550, 656-657)
GdReturn ==
    /\ gdPc = "loop"
    /\ gdIdx > Len(GdList)
    /\ gdPc' = "returned"
    /\ UNCHANGED <<gdIdx, pattern_answer, full_listing, gd_downloaded, gd_transferred,
                   files, filtered, matchDone>>
    /\ UNCHANGED guardKept
    /\ UNCHANGED guardRest

\* ftp.quit() raises after the loop of folder mode: return [] (656, 659-661)
GdQuitFails ==
    /\ gdPc = "loop"
    /\ gd_mode = "browse"
    /\ gdIdx > Len(GdList)
    /\ gdPc' = "returned"
    /\ gd_downloaded' = <<>>
    /\ UNCHANGED <<gdIdx, pattern_answer, full_listing, gd_transferred, files, filtered,
                   matchDone>>
    /\ UNCHANGED guardKept
    /\ UNCHANGED guardRest

GuardNext ==
    \/ GdConnectFails
    \/ GdPatternNames
    \/ GdPatternEmpty
    \/ GdPatternRaises
    \/ GdSkipExisting
    \/ GdSkipPrefix
    \/ GdSkipExcluded
    \/ GdTransferOk
    \/ GdTransferFails
    \/ GdReturn
    \/ GdQuitFails

InitGuard == GuardInit /\ DlIdle /\ FilterIdle /\ RunIdle /\ ZipIdle /\ ExtIdle /\
    UploadIdle /\ NameIdle /\ PathIdle /\ ProcIdle /\ CleanupIdle

SpecGuard == InitGuard /\ [][GuardNext]_vars

\* C33: no name with a token equal to an excluded key is in the list
\* download_dataset returns, in URL mode and in folder mode, also when the
\* name exists in the downloads directory.
C33_NoExcludedNameReturned ==
    \A i \in 1..Len(gd_downloaded) : Tokens(gd_downloaded[i]) \cap ExcludedKeys = {}

\* The same for the names the call transferred, and for folder mode
C33_NoExcludedNameTransferred ==
    /\ \A i \in 1..Len(gd_transferred) : Tokens(gd_transferred[i]) \cap ExcludedKeys = {}
    /\ gd_mode = "browse" => C33_NoExcludedNameReturned

\* C36: with filtered_zip_prefix configured, no name that starts with the
\* prefix, compared without regard to case, is transferred, in URL mode and
\* in folder mode; an archive named as the pipeline names its own is among
\* them.
C36_OwnArchivesNotTransferred ==
    filtered_prefix # <<>> =>
        \A i \in 1..Len(gd_transferred) :
            /\ ~StartsWith(Upper(gd_transferred[i]), Upper(filtered_prefix))
            /\ gd_transferred[i] # Str_uploaded

\* The call has returned from a list holding an archive of the pipeline's own
\* naming and a name with the prefix in lower case; the other name of the
\* list was transferred, those two were not.
C36_Witness ==
    /\ gdPc = "returned"
    /\ filtered_prefix = <<"P", "_">>
    /\ gd_entries = <<Str_uploaded, <<"p", "_", "K", "_", "T">> >>
    /\ gd_mode = "http"
    /\ gdIdx = 3
    /\ gd_transferred = <<>>
    /\ existing_lower = {}

\* C38: in folder mode the full listing is requested exactly when the pattern
\* listing raised or returned no names, the names listed go through the
\* dataset matching, and the files selected are those selected from a full
\* listing.
C38_SelectedAsFromFullListing ==
    (gd_mode = "browse" /\ matchDone /\ full_listing # "failed") =>
        /\ full_listing = "ok" <=> pattern_answer \in {"raised", "empty"}
        /\ filtered = FilterFilesByDataset(files)
        /\ filtered = FilterFilesByDataset(gd_entries)

\* The full listing is requested exactly when the pattern listing raised or
\* returned no names, and what was listed goes through the matching
C38_FallbackIffNoNames ==
    (gd_mode = "browse" /\ matchDone) =>
        /\ full_listing # "no" <=> pattern_answer \in {"raised", "empty"}
        /\ filtered = FilterFilesByDataset(files)

(***************************************************************************)
(* The whole of process_dataset after download_dataset (etl_pipeline.py:   *)
(* 100-276): the loop of the proc group over the downloaded archives, then *)
(* the uploads and the cleanup of the cleanup group over all_filtered_zips.*)
(***************************************************************************)

RECURSIVE SumSeq(_)
\* The sum of a sequence of numbers
SumSeq(l) == IF l = <<>> THEN 0 ELSE Head(l) + SumSeq(Tail(l))

\* The loop starts; the sinks of the dataset are configured; nothing is
\* uploaded yet; the downloaded archives hold at most MaxZips files
SchedInit ==
    /\ ProcInit
    /\ SumSeq(members) <= MaxZips
    /\ dl_action = "delete"
    /\ require_ftp \in BOOLEAN
    /\ ftp_action \in {"copy", "move"}
    /\ ftp_folder = TRUE
    /\ uploader = uploader_set
    /\ ftp_uploader = TRUE
    /\ all_filtered_zips = <<>>
    /\ zipExists = EmptyDict
    /\ spacesDelivered = EmptyDict
    /\ ftpDelivered = EmptyDict
    /\ uploaded_urls = <<>>
    /\ spaces_map = EmptyDict
    /\ ftp_map = EmptyDict
    /\ cleanupPc = "idle"
    /\ cleanupIdx = 0

schedKept == <<members, uploader_set, procIdx, memberIdx, filtered_dir, zip_files,
               built_zips, attempted, skipped, handled, dl_action, downloads,
               filter_failed, require_ftp, ftp_action, ftp_folder, uploader,
               ftp_uploader, uploaded_urls, spaces_map, ftp_map>>

schedRest == <<dlVars, filterVars, matchVars, runVars, zipVars, extVars, uploadVars,
               nameVars, pathVars, guardVars>>

HandOver_BeforeLoopEnds ==
    /\ procPc = "extract"
    /\ cleanupPc = "idle"
    /\ LET n == Len(built_zips)
       IN  /\ all_filtered_zips' = [i \in 1..n |-> i]
           /\ zipExists' = [i \in 1..n |-> built_zips[i] \in zip_files]
           /\ spacesDelivered' = [i \in 1..n |-> FALSE]
           /\ ftpDelivered' = [i \in 1..n |-> FALSE]
           /\ cleanupPc' = IF n > 0 THEN "spaces" ELSE "done"
           /\ handed' = IF uploader_set THEN built_zips ELSE <<>>
    /\ cleanupIdx' = 1
    /\ procPc' = "uploading"
    /\ UNCHANGED procStatus
    /\ UNCHANGED schedKept
    /\ UNCHANGED schedRest

\* The loop over downloaded_files has ended: if all_filtered_zips, the list
\* goes to the uploads and the cleanup (102, 193-197); archives are named by
\* their position in the list
HandOver ==
    /\ procPc = "extract"
    /\ procIdx > Len(members)
    /\ cleanupPc = "idle"
    /\ LET n == Len(built_zips)
       IN  /\ all_filtered_zips' = [i \in 1..n |-> i]
           /\ zipExists' = [i \in 1..n |-> built_zips[i] \in zip_files]
           /\ spacesDelivered' = [i \in 1..n |-> FALSE]
           /\ ftpDelivered' = [i \in 1..n |-> FALSE]
           /\ cleanupPc' = IF n > 0 THEN "spaces" ELSE "done"
           /\ handed' = IF uploader_set THEN built_zips ELSE <<>>
    /\ cleanupIdx' = 1
    /\ procPc' = "uploading"
    /\ UNCHANGED procStatus
    /\ UNCHANGED schedKept
    /\ UNCHANGED schedRest

\* return {'status': 'success', ...} (267-276)
SchedReturn ==
    /\ procPc = "uploading"
    /\ cleanupPc = "done"
    /\ procPc' = "done"
    /\ procStatus' = "success"
    /\ UNCHANGED <<handed, all_filtered_zips, zipExists, spacesDelivered, ftpDelivered,
                   cleanupPc, cleanupIdx>>
    /\ UNCHANGED schedKept
    /\ UNCHANGED schedRest

SchedNext ==
    \/ ExtractOk
    \/ ExtractFails
    \/ NothingFiltered
    \/ FilterFails
    \/ FilterOk
    \/ CompressOk
    \/ CompressRaises
    \/ ZipLost
    \/ CheckZip
    \/ EndMembers
    \/ HandOver
    \/ UploadToSpaces
    \/ UploadToFtp
    \/ CleanupStep
    \/ CleanupDone
    \/ SchedReturn

InitSched == SchedInit /\ DlIdle /\ FilterIdle /\ MatchIdle /\ RunIdle /\ ZipIdle /\
    ExtIdle /\ UploadIdle /\ NameIdle /\ PathIdle /\ GuardIdle

SpecSched == InitSched /\ [][SchedNext]_vars

\* Every downloaded archive was handed to the extractor, and every one that
\* did not raise had all its extracted files handled
AllArchivesThrough ==
    /\ attempted = 1..Len(members)
    /\ \A a \in (1..Len(members)) \ skipped :
          \A m \in 1..members[a] : <<a, m>> \in handled

\* Nothing has gone to a sink and no cleanup has started while the loop is on
C35_NothingBeforeLoopEnds ==
    ~AllArchivesThrough =>
        /\ cleanupPc = "idle"
        /\ handed = <<>> /\ uploaded_urls = <<>>
        /\ \A z \in Zips : ~spacesDelivered[z] /\ ~ftpDelivered[z]

\* The object-store uploads come first, then the FTP uploads, then the
\* cleanup, which alone removes archives, one decision at a time
C35_UploadsThenCleanup ==
    /\ cleanupPc' = "ftp" => cleanupPc \in {"spaces", "ftp"}
    /\ cleanupPc' = "cleanup" => cleanupPc \in {"ftp", "cleanup"}
    /\ (cleanupIdx' # cleanupIdx /\ cleanupPc # "idle") => cleanupPc = "cleanup"
    /\ (\E z \in Zips : zipExists[z] /\ z \in DOMAIN zipExists' /\ ~zipExists'[z]) =>
          cleanupPc = "cleanup"
    /\ (spacesDelivered' # spacesDelivered /\ cleanupPc # "idle") => cleanupPc = "spaces"
    /\ (ftpDelivered' # ftpDelivered /\ cleanupPc # "idle") => cleanupPc = "ftp"

====
